---- MODULE Spec2Model ----
(***************************************************************************)
(* A model of dvc's templated-pipeline resolution engine (dvc/parsing):    *)
(* the interpolation grammar (interpolate.py), the namespace tree and      *)
(* Context (context.py) and the stage-expansion driver (__init__.py).      *)
(*                                                                         *)
(* Python values are modelled as follows.                                  *)
(*   str            a sequence of one-character strings                    *)
(*   raw values     records tagged by t: "none", "bool", "int", "str",     *)
(*                  "list", "dict", "other" (an unsupported type)          *)
(*   nodes          records tagged by kind: "Value", "CtxDict", "CtxList", *)
(*                  "String"                                               *)
(*   exceptions     records with a field exc (the Python class) and a      *)
(*                  field what (which raise statement)                     *)
(*   dict           a function from keys (str) to values; iteration order  *)
(*                  is the order of Order(_)                               *)
(***************************************************************************)
EXTENDS Integers, Sequences, FiniteSets, TLC

----------------------------------------------------------------------------
(* Generic helpers *)

\* F applied to the value v
With(v, F(_)) == F(v)

IsErr(x) == "exc" \in DOMAIN x
IsNode(x) == "kind" \in DOMAIN x
IsRaw(x) == "t" \in DOMAIN x

Err(cls, what, key) == [exc |-> cls, what |-> what, key |-> key]

Digits == <<"0", "1", "2", "3", "4", "5", "6", "7", "8", "9">>

Letters ==
    <<"a", "b", "c", "d", "e", "f", "g", "h", "i", "j", "k", "l", "m", "n",
      "o", "p", "q", "r", "s", "t", "u", "v", "w", "x", "y", "z", "F", "N",
      "T", "_">>

\* the characters strings are made of, in the order that fixes dict iteration
Chars ==
    <<" ", "$", "'", ",", "-", ".", "/", ":", "[", "\\", "]", "{", "}">>
    \o Digits \o Letters

CharRank(c) == CHOOSE i \in 1..Len(Chars) : Chars[i] = c

RECURSIVE SeqLess(_, _)
SeqLess(a, b) ==
    IF a = <<>> THEN b # <<>>
    ELSE IF b = <<>> THEN FALSE
    ELSE IF Head(a) = Head(b) THEN SeqLess(Tail(a), Tail(b))
    ELSE CharRank(Head(a)) < CharRank(Head(b))

RECURSIVE Order(_)
\* the keys of a dict as a sequence, in iteration order
Order(S) ==
    IF S = {} THEN <<>>
    ELSE LET m == CHOOSE x \in S : \A y \in S \ {x} : SeqLess(x, y)
         IN <<m>> \o Order(S \ {m})

RECURSIVE Concat(_)
Concat(ss) == IF ss = <<>> THEN <<>> ELSE Head(ss) \o Concat(Tail(ss))

----------------------------------------------------------------------------
(* Raw Python values *)

PyNone == [t |-> "none"]
PyBool(b) == [t |-> "bool", b |-> b]
PyInt(i) == [t |-> "int", i |-> i]
PyStr(s) == [t |-> "str", s |-> s]
PyList(items) == [t |-> "list", items |-> items]
PyDict(d) == [t |-> "dict", d |-> d]
PyOther == [t |-> "other"]

EmptyDict == <<>>

IsPrimitive(v) == IsRaw(v) /\ v.t \in {"int", "str", "bool"}

Digit(i) == Digits[i + 1]

RECURSIVE StrNat(_)
StrNat(i) == IF i < 10 THEN <<Digit(i)>> ELSE StrNat(i \div 10) \o <<Digit(i % 10)>>

\* str(int)
StrInt(i) == IF i < 0 THEN <<"-">> \o StrNat(-i) ELSE StrNat(i)

----------------------------------------------------------------------------
(* context.py: Meta, Value, Container, CtxList, CtxDict *)

\* Meta.source when it is None
NoSource == <<>>

Meta(source, dpaths) == [source |-> source, dpaths |-> dpaths]

_default_meta == Meta(NoSource, <<>>)

\* Meta.update_path; path is already str(path)
update_path(meta, path) == [meta EXCEPT !.dpaths = @ \o <<path>>]

RECURSIVE JoinDot(_)
JoinDot(ps) ==
    IF ps = <<>> THEN <<>>
    ELSE IF Len(ps) = 1 THEN ps[1]
    ELSE ps[1] \o <<".">> \o JoinDot(Tail(ps))

\* Meta.path
MetaPath(meta) == JoinDot(meta.dpaths)

Value(v, meta) == [kind |-> "Value", value |-> v, meta |-> meta]

HasErr(seq) == \E i \in 1..Len(seq) : IsErr(seq[i])

\* the first exception among the elements of a sequence
FirstErr(seq) ==
    seq[CHOOSE i \in 1..Len(seq) :
            IsErr(seq[i]) /\ \A j \in 1..(i - 1) : ~IsErr(seq[j])]

\* a conversion that gives a Node the Meta of the place it is stored at
PassNode_Rewrap(value, meta) == [value EXCEPT !.meta = meta]

\* `elif isinstance(value, Node): return value`
PassNode(value, meta) == value

RECURSIVE _convert(_, _, _)
\* Container._convert of self.meta, key, value: a Node or a TypeError
_convert(selfmeta, key, value) ==
    LET meta == update_path(selfmeta, key) IN
    IF IsRaw(value) /\ (value.t = "none" \/ IsPrimitive(value))
    THEN Value(value, meta)
    ELSE IF IsNode(value) THEN PassNode(value, meta)
    ELSE IF IsRaw(value) /\ value.t = "dict"
    THEN \* CtxDict(value, meta=meta): update(mapping) sets every key
         LET ks == Order(DOMAIN value.d)
             cs == [i \in 1..Len(ks) |-> _convert(meta, ks[i], value.d[ks[i]])]
         IN IF HasErr(cs) THEN FirstErr(cs)
            ELSE [kind |-> "CtxDict", meta |-> meta,
                  data |-> [k \in DOMAIN value.d |-> _convert(meta, k, value.d[k])]]
    ELSE IF IsRaw(value) /\ value.t = "list"
    THEN \* CtxList(value, meta=meta): extend(values) inserts at len(data)
         LET cs == [i \in 1..Len(value.items) |->
                        _convert(meta, StrInt(i - 1), value.items[i])]
         IN IF HasErr(cs) THEN FirstErr(cs)
            ELSE [kind |-> "CtxList", meta |-> meta, data |-> cs]
    ELSE Err("TypeError", "unsupported", key)

----------------------------------------------------------------------------
(* str() and repr() of values and nodes *)

RECURSIVE Repr(_)
RECURSIVE JoinComma(_)
JoinComma(ss) ==
    IF ss = <<>> THEN <<>>
    ELSE IF Len(ss) = 1 THEN ss[1]
    ELSE ss[1] \o <<",", " ">> \o JoinComma(Tail(ss))

ReprList(items) ==
    <<"[">> \o JoinComma([i \in 1..Len(items) |-> Repr(items[i])]) \o <<"]">>

ReprDict(d) ==
    LET ks == Order(DOMAIN d) IN
    <<"{">> \o JoinComma([i \in 1..Len(ks) |->
                 <<"'">> \o ks[i] \o <<"'", ":", " ">> \o Repr(d[ks[i]])])
           \o <<"}">>

\* repr(x): Value.__repr__, Container.__repr__ and the built-in types
Repr(x) ==
    IF IsNode(x)
    THEN CASE x.kind = "Value" -> Repr(x.value)
           [] x.kind = "String" -> x.value.s
           [] x.kind = "CtxList" -> ReprList(x.data)
           [] x.kind = "CtxDict" -> ReprDict(x.data)
    ELSE CASE x.t = "none" -> <<"N", "o", "n", "e">>
           [] x.t = "bool" -> IF x.b THEN <<"T", "r", "u", "e">>
                              ELSE <<"F", "a", "l", "s", "e">>
           [] x.t = "int" -> StrInt(x.i)
           [] x.t = "str" -> <<"'">> \o x.s \o <<"'">>
           [] x.t = "list" -> ReprList(x.items)
           [] x.t = "dict" -> ReprDict(x.d)
           [] x.t = "other" -> <<"o">>

\* str(x): Value.__str__ is str(self.value); a container has no __str__
PyStrOf(x) ==
    IF IsNode(x) /\ x.kind = "Value"
    THEN (IF x.value.t = "str" THEN x.value.s ELSE Repr(x.value))
    ELSE IF IsNode(x) /\ x.kind = "String" THEN x.value.s
    ELSE IF IsRaw(x) /\ x.t = "str" THEN x.s
    ELSE Repr(x)

----------------------------------------------------------------------------
(* Container.select *)

IsDigit(c) == \E i \in 1..Len(Digits) : Digits[i] = c

DigitVal(c) == CHOOSE i \in 0..9 : Digit(i) = c

RECURSIVE NatOf(_)
NatOf(ds) ==
    IF ds = <<>> THEN 0
    ELSE NatOf(SubSeq(ds, 1, Len(ds) - 1)) * 10 + DigitVal(ds[Len(ds)])

RECURSIVE Strip(_)
\* str.strip()
Strip(s) ==
    IF s = <<>> THEN s
    ELSE IF Head(s) = " " THEN Strip(Tail(s))
    ELSE IF s[Len(s)] = " " THEN Strip(SubSeq(s, 1, Len(s) - 1))
    ELSE s

\* int(s) of a str: the value, or a ValueError
ParseInt(s) ==
    LET b == Strip(s)
        neg == b # <<>> /\ Head(b) = "-"
        ds == IF neg THEN Tail(b) ELSE b
    IN IF ds # <<>> /\ \A i \in 1..Len(ds) : IsDigit(ds[i])
       THEN PyInt(IF neg THEN 0 - NatOf(ds) ELSE NatOf(ds))
       ELSE Err("ValueError", "invalid literal", s)

\* key.split(sep=".", maxsplit=1)
SplitDot(key) ==
    IF \E i \in 1..Len(key) : key[i] = "."
    THEN LET i == CHOOSE i \in 1..Len(key) :
                      key[i] = "." /\ \A j \in 1..(i - 1) : key[j] # "."
         IN <<SubSeq(key, 1, i - 1), SubSeq(key, i + 1, Len(key))>>
    ELSE <<key>>

RECURSIVE select(_, _)
\* Container.select of a CtxDict, CtxList or Context: a node or an exception
select(self, key) ==
    LET parts == SplitDot(key)
        index == Strip(parts[1])
        d == IF self.kind = "CtxList"
             THEN LET n == ParseInt(index) IN
                  IF IsErr(n) THEN n
                  ELSE IF n.i >= 0 /\ n.i < Len(self.data) THEN self.data[n.i + 1]
                  ELSE IF n.i < 0 /\ 0 - n.i <= Len(self.data)
                       THEN self.data[Len(self.data) + n.i + 1]
                  ELSE Err("ValueError", "not found", index)
             ELSE IF index \in DOMAIN self.data THEN self.data[index]
                  ELSE Err("ValueError", "not found", index)
    IN IF IsErr(d) THEN d
       ELSE IF Len(parts) = 1 THEN d
       ELSE IF IsNode(d) /\ d.kind \in {"CtxDict", "CtxList"}
            THEN select(d, parts[2])
       ELSE Err("AttributeError", "select", parts[2])

\* a get_sources that has every container report itself
get_sources_Alike(node) ==
    IF node.kind = "String" THEN node.sources
    ELSE {<<node.meta.source, MetaPath(node.meta)>>}

\* Node.get_sources: a set of <<source, key>> pairs
get_sources(node) ==
    CASE node.kind = "Value" -> {<<node.meta.source, MetaPath(node.meta)>>}
      [] node.kind = "CtxList" -> {<<node.meta.source, MetaPath(node.meta)>>}
      [] node.kind = "CtxDict" -> {}
      [] node.kind = "String" -> node.sources

----------------------------------------------------------------------------
(* interpolate.py: KEYCRE and _get_matches *)

\* \w, restricted to the characters of Chars
WordChars == {Digits[i] : i \in 1..Len(Digits)} \cup {Letters[i] : i \in 1..Len(Letters)}

\* the character class [\w._ \\/-] of KEYCRE
InnerClass == WordChars \cup {".", "_", " ", "\\", "/", "-"}

RECURSIVE RunEnd(_, _)
\* the first position at or after q whose character is outside InnerClass
RunEnd(s, q) ==
    IF q > Len(s) THEN q
    ELSE IF s[q] \in InnerClass THEN RunEnd(s, q + 1)
    ELSE q

\* a KEYCRE that lacks the lookbehind
NotEscaped_Always(s, p) == TRUE

\* (?<!\\): the character before position p is not a backslash
NotEscaped(s, p) == p = 1 \/ s[p - 1] # "\\"

NoMatch == [start |-> 0, end |-> 0, inner |-> <<>>]

\* KEYCRE matched at position p of s: a match (1-based, inclusive) or NoMatch
MatchAt(s, p) ==
    IF ~(s[p] = "$" /\ NotEscaped(s, p)
         /\ p + 1 <= Len(s) /\ s[p + 1] = "{")
    THEN NoMatch
    ELSE IF p + 2 <= Len(s) /\ s[p + 2] = "{"
    THEN LET q == RunEnd(s, p + 3) IN
         IF q + 1 <= Len(s) /\ s[q] = "}" /\ s[q + 1] = "}"
         THEN [start |-> p, end |-> q + 1, inner |-> SubSeq(s, p + 3, q - 1)]
         ELSE NoMatch
    ELSE LET q == RunEnd(s, p + 2) IN
         IF q <= Len(s) /\ s[q] = "}"
         THEN [start |-> p, end |-> q, inner |-> SubSeq(s, p + 2, q - 1)]
         ELSE NoMatch

RECURSIVE MatchesFrom(_, _)
MatchesFrom(s, p) ==
    IF p > Len(s) THEN <<>>
    ELSE LET m == MatchAt(s, p) IN
         IF m.start = 0 THEN MatchesFrom(s, p + 1)
         ELSE <<m>> \o MatchesFrom(s, m.end + 1)

\* list(KEYCRE.finditer(template))
_get_matches(template) == MatchesFrom(template, 1)

\* a test that takes no string for a single expression
IsExact_Never(src, matches) == FALSE

\* len(matches) == 1 and src == matches[0].group(0)
IsExact(src, matches) ==
    Len(matches) = 1 /\ matches[1].start = 1 /\ matches[1].end = Len(src)

_is_exact_string(src, matches) == IsExact(src, matches)

_get_expr_from_match(match) == match.inner

RECURSIVE Unescape(_)
\* s.replace(ESC_BRACE_OPEN, BRACE_OPEN)
Unescape(s) ==
    IF Len(s) < 3 THEN s
    ELSE IF s[1] = "\\" /\ s[2] = "$" /\ s[3] = "{"
         THEN <<"$", "{">> \o Unescape(SubSeq(s, 4, Len(s)))
    ELSE <<s[1]>> \o Unescape(Tail(s))

----------------------------------------------------------------------------
(* context.py: _merge, CtxDict.merge_update *)

NoErr == [ok |-> TRUE]

IsMapping(x) ==
    (IsNode(x) /\ x.kind = "CtxDict") \/ (IsRaw(x) /\ x.t = "dict")

\* the items of a Mapping: a CtxDict (or Context) or a plain dict
Items(x) == IF IsNode(x) THEN x.data ELSE x.d

Put(d, key, val) == [k \in DOMAIN d \cup {key} |-> IF k = key THEN val ELSE d[k]]

\* an assignment that keeps the value a key already has
SetItem_KeepFirst(into, key, val) ==
    IF key \in DOMAIN Items(into) THEN [into |-> into, err |-> NoErr]
    ELSE IF IsNode(into)
    THEN [into |-> [into EXCEPT !.data = Put(@, key, _convert(into.meta, key, val))],
          err |-> NoErr]
    ELSE [into |-> PyDict(Put(into.d, key, val)), err |-> NoErr]

\* into[key] = val: CtxDict.__setitem__ converts, a plain dict stores as is
SetItem(into, key, val) ==
    IF IsNode(into)
    THEN With(_convert(into.meta, key, val), LAMBDA c :
             IF IsErr(c) THEN [into |-> into, err |-> c]
             ELSE [into |-> [into EXCEPT !.data = Put(@, key, c)], err |-> NoErr])
    ELSE [into |-> PyDict(Put(into.d, key, val)), err |-> NoErr]

\* the child into[key] replaced by the child as mutated in place
WithChild(into, key, child) ==
    IF IsNode(into) THEN [into EXCEPT !.data = Put(@, key, child)]
    ELSE PyDict(Put(into.d, key, child))

\* a _merge that never refuses to overwrite
MustNotOverwrite_Never(has, overwrite) == FALSE

\* `key in into and not overwrite`
MustNotOverwrite(has, overwrite) == has /\ ~overwrite

RECURSIVE MergeKeys(_, _, _, _)
\* the loop of _merge over the keys still to visit; into is returned as the
\* loop left it, also when it raised
MergeKeys(into, update, keys, overwrite) ==
    IF keys = <<>> THEN [into |-> into, err |-> NoErr]
    ELSE LET key == Head(keys)
             val == Items(update)[key]
             has == key \in DOMAIN Items(into)
         IN IF has /\ IsMapping(Items(into)[key]) /\ IsMapping(val)
            THEN With(MergeKeys(Items(into)[key], val,
                                Order(DOMAIN Items(val)), overwrite), LAMBDA r :
                     IF IsErr(r.err)
                     THEN [into |-> WithChild(into, key, r.into), err |-> r.err]
                     ELSE MergeKeys(WithChild(into, key, r.into), update,
                                    Tail(keys), overwrite))
            ELSE IF MustNotOverwrite(has, overwrite)
            THEN [into |-> into, err |-> Err("ValueError", "cannot overwrite", key)]
            ELSE With(SetItem(into, key, val), LAMBDA r :
                     IF IsErr(r.err) THEN r
                     ELSE MergeKeys(r.into, update, Tail(keys), overwrite))

_merge(into, update, overwrite) ==
    MergeKeys(into, update, Order(DOMAIN Items(update)), overwrite)

RECURSIVE merge_update(_, _, _)
\* CtxDict.merge_update(*args, overwrite): [ctx, ret], ret None or the exception
merge_update(self, args, overwrite) ==
    IF args = <<>> THEN [ctx |-> self, ret |-> PyNone]
    ELSE With(_merge(PyDict(self.data), Head(args), overwrite), LAMBDA r :
             IF IsErr(r.err)
             THEN [ctx |-> [self EXCEPT !.data = r.into.d], ret |-> r.err]
             ELSE merge_update([self EXCEPT !.data = r.into.d], Tail(args), overwrite))

----------------------------------------------------------------------------
(* context.py: Context *)

\* Context(mapping, meta=meta): CtxDict.__init__ sets every key through
\* __setitem__; _track is off and nothing is tracked.  A Context or an exception.
Context(mapping, meta) ==
    LET m == IF meta = PyNone THEN Meta(NoSource, <<>>) ELSE meta
        ks == Order(DOMAIN mapping)
        cs == [i \in 1..Len(ks) |-> _convert(m, ks[i], mapping[ks[i]])]
    IN IF HasErr(cs) THEN FirstErr(cs)
       ELSE [kind |-> "CtxDict", meta |-> m,
             data |-> [k \in DOMAIN mapping |-> _convert(m, k, mapping[k])],
             track |-> FALSE, tracked |-> {}]

\* Context.load_from of a file whose loader returns the mapping content
load_from(content, file) == Context(content, Meta(file, <<>>))

\* Context.clone: cls(deepcopy(ctx.data))
clone(ctx) == Context(ctx.data, PyNone)

\* Context._track_data: the tracked data after the call
_track_data(self, node) ==
    IF ~self.track THEN self.tracked
    ELSE self.tracked \cup {sk \in get_sources(node) : sk[1] # NoSource}

\* Context._unwrap
_unwrap(node) == IF IsNode(node) /\ node.kind = "Value" THEN node.value ELSE node

\* Context.select(key, unwrap): [ctx, ret]
Context_select(self, key, unwrap) ==
    With(select(self, key), LAMBDA node :
        IF IsErr(node) THEN [ctx |-> self, ret |-> node]
        ELSE IF self.track /\ ~IsNode(node)
        THEN [ctx |-> self, ret |-> Err("AttributeError", "get_sources", key)]
        ELSE [ctx |-> [self EXCEPT !.tracked = _track_data(self, node)],
              ret |-> IF unwrap THEN _unwrap(node) ELSE node])

RECURSIVE InterpolateFrom(_, _, _, _, _)
\* the loop of Context._interpolate_string from the i-th match on
InterpolateFrom(self, s, matches, i, acc) ==
    IF i > Len(matches)
    THEN [ctx |-> self,
          ret |-> PyStr(acc.buf \o SubSeq(s, acc.index + 1, Len(s)))]
    ELSE With(Context_select(self, _get_expr_from_match(matches[i]), FALSE), LAMBDA r :
             IF IsErr(r.ret) THEN r
             ELSE InterpolateFrom(r.ctx, s, matches, i + 1,
                      [index |-> matches[i].end,
                       buf |-> acc.buf
                               \o SubSeq(s, acc.index + 1, matches[i].start - 1)
                               \o PyStrOf(r.ret)]))

\* Context._interpolate_string(s): [ctx, ret]
_interpolate_string(self, s) ==
    InterpolateFrom(self, s, _get_matches(s), 1, [index |-> 0, buf |-> <<>>])

\* Context.format_string(s, unwrap): [ctx, ret]; s is a raw value
format_string(self, s, unwrap) ==
    IF ~(IsRaw(s) /\ s.t = "str") THEN [ctx |-> self, ret |-> s]
    ELSE With(_get_matches(s.s), LAMBDA matches :
             IF _is_exact_string(s.s, matches)
             THEN Context_select(self, _get_expr_from_match(matches[1]), unwrap)
             ELSE With(_interpolate_string(self, s.s), LAMBDA r :
                      IF IsErr(r.ret) THEN r
                      ELSE [ctx |-> r.ctx, ret |-> PyStr(Unescape(r.ret.s))]))

\* Context._check_joined_with_interpolation: TRUE when it raises
_check_joined_with_interpolation(value) ==
    With(_get_matches(value), LAMBDA matches :
        matches # <<>> /\ ~_is_exact_string(value, matches))

\* the values of a raw list or dict, as a set
CollectionValues(value) ==
    IF value.t = "dict" THEN {value.d[k] : k \in DOMAIN value.d}
    ELSE {value.items[i] : i \in 1..Len(value.items)}

\* Context._check_nested_collection: TRUE when it raises
_check_nested_collection(value) ==
    \E item \in CollectionValues(value) : item.t \in {"list", "dict"}

_is_interpolated_string(item) ==
    IsRaw(item) /\ item.t = "str" /\ _get_matches(item.s) # <<>>

\* Context._check_interpolation_collection: TRUE when it raises
_check_interpolation_collection(value) ==
    \E item \in CollectionValues(value) : _is_interpolated_string(item)

RECURSIVE SetKeys(_, _, _)
\* the loop of Context.set over the keys still to visit: [ctx, ret]
SetKeys(self, to_set, keys) ==
    IF keys = <<>> THEN [ctx |-> self, ret |-> PyNone]
    ELSE LET key == Head(keys)
             value == to_set[key]
         IN IF key \in DOMAIN self.data
            THEN [ctx |-> self, ret |-> Err("ValueError", "key already exists", key)]
            ELSE IF value.t = "str" /\ _check_joined_with_interpolation(value.s)
            THEN [ctx |-> self, ret |-> Err("ValueError", "joined with interpolation", key)]
            ELSE IF value.t \in {"list", "dict"} /\ _check_nested_collection(value)
            THEN [ctx |-> self, ret |-> Err("ValueError", "nested collection", key)]
            ELSE IF value.t \in {"list", "dict"}
                    /\ _check_interpolation_collection(value)
            THEN [ctx |-> self, ret |-> Err("ValueError", "interpolation in collection", key)]
            ELSE With(format_string(self, value, FALSE), LAMBDA f :
                     IF IsErr(f.ret) THEN f
                     ELSE With(SetItem(f.ctx, key, f.ret), LAMBDA r :
                              IF IsErr(r.err) THEN [ctx |-> r.into, ret |-> r.err]
                              ELSE SetKeys(r.into, to_set, Tail(keys))))

\* Context.set(to_set): [ctx, ret]
Context_set(self, to_set) == SetKeys(self, to_set, Order(DOMAIN to_set))

----------------------------------------------------------------------------
(* interpolate.py: _resolve_str, resolve; the String wrapper *)

RECURSIVE StringSources(_, _, _)
\* the provenance of the nodes the matches of a String select
StringSources(context, matches, i) ==
    IF i > Len(matches) THEN {}
    ELSE With(select(context, matches[i].inner), LAMBDA node :
             IF IsNode(node)
             THEN {sk \in get_sources(node) : sk[1] # NoSource} ELSE {})
         \cup StringSources(context, matches, i + 1)

\* String(src, matches, context): every match is selected in the context and
\* spliced in as a str, then \${ is unescaped: [ctx, ret], ret a String node
String(src, matches, context) ==
    With(_interpolate_string(context, src), LAMBDA r :
        IF IsErr(r.ret) THEN r
        ELSE [ctx |-> r.ctx,
              ret |-> [kind |-> "String", value |-> PyStr(Unescape(r.ret.s)),
                       sources |-> StringSources(context, matches, 1)]])

\* _resolve_value
_resolve_value(match, context) == Context_select(context, match.inner, FALSE)

\* interpolate._unwrap
interpolate_unwrap(value) ==
    IF IsNode(value) /\ value.kind \in {"Value", "String"}
    THEN value.value ELSE value

\* _resolve_str(src, context, unwrap): [ctx, ret]
_resolve_str(src, context, unwrap) ==
    With(_get_matches(src), LAMBDA matches :
        With(IF IsExact(src, matches)
             THEN _resolve_value(matches[1], context)
             ELSE String(src, matches, context), LAMBDA r :
            IF IsErr(r.ret) THEN r
            ELSE [ctx |-> r.ctx,
                  ret |-> IF unwrap THEN interpolate_unwrap(r.ret) ELSE r.ret]))

RECURSIVE resolve(_, _, _)
RECURSIVE ResolveDict(_, _, _, _, _)
RECURSIVE ResolveList(_, _, _, _, _)

\* {key: apply_value(value) for key, value in src.items()}
ResolveDict(src, keys, context, unwrap, acc) ==
    IF keys = <<>> THEN [ctx |-> context, ret |-> PyDict(acc)]
    ELSE With(resolve(src[Head(keys)], context, unwrap), LAMBDA r :
             IF IsErr(r.ret) THEN r
             ELSE ResolveDict(src, Tail(keys), r.ctx, unwrap,
                              Put(acc, Head(keys), r.ret)))

\* type(src)(map(apply_value, src))
ResolveList(items, i, context, unwrap, acc) ==
    IF i > Len(items) THEN [ctx |-> context, ret |-> PyList(acc)]
    ELSE With(resolve(items[i], context, unwrap), LAMBDA r :
             IF IsErr(r.ret) THEN r
             ELSE ResolveList(items, i + 1, r.ctx, unwrap, Append(acc, r.ret)))

\* resolve(src, context, unwrap): [ctx, ret]
resolve(src, context, unwrap) ==
    IF IsRaw(src) /\ src.t = "dict"
    THEN ResolveDict(src.d, Order(DOMAIN src.d), context, unwrap, EmptyDict)
    ELSE IF IsRaw(src) /\ src.t = "list"
    THEN ResolveList(src.items, 1, context, unwrap, <<>>)
    ELSE IF IsRaw(src) /\ src.t = "str"
    THEN _resolve_str(src.s, context, unwrap)
    ELSE [ctx |-> context, ret |-> src]

----------------------------------------------------------------------------
(* State *)

VARIABLES
    ctx,      \* the Context an operation is applied to
    op,       \* the last operation: its name, arguments, the Context before, its result
    scope,    \* "in" inside a `with ctx.track()` block, else "out"
    origin,   \* how ctx was made: loaded from a file, or cloned from a Context
    doc,      \* the parsed dvc.yaml a DataResolver is constructed with
    files,    \* the parameter files that exist: path -> the mapping the loader returns
    global_ctx,         \* DataResolver.global_ctx
    global_ctx_source,  \* DataResolver.global_ctx_source
    pc,       \* where DataResolver is: "new", "ready", "each", "done", "error"; "idle" without one
    idx,      \* the entry of stages that resolve() is at
    pending,  \* the foreach entry being expanded: its context, items and position
    out,      \* the stages joined so far by resolve()
    frames,   \* one record for every call of _resolve_stage
    result,   \* what resolve() returned or raised
    resolved, \* per entry of stages, how far a worker of its own has resolved it
    pool,     \* a call of LazyThreadPoolExecutor.imap_unordered: its locals and futures
    runner    \* a call of _cmd_run: the process, the SIGINT handler, the repository lock

unit == <<ctx, op, scope, origin>>

driver ==
    <<doc, files, global_ctx, global_ctx_source, pc, idx, pending, out, frames, result,
      resolved>>

others == <<pool, runner>>

vars == <<unit, driver, others>>

Loaded == [how |-> "load"]

kA == <<"a">>
kB == <<"b">>

NoOp == [name |-> "init"]

Absent == [t |-> "absent"]

NoDoc == [use |-> Absent, vars |-> Absent, stages |-> <<>>]

NoPending == [name |-> <<>>]

NoPool == [pc |-> "idle"]

NoRunner == [pc |-> "idle"]

\* no worker has taken the entry
NotStarted == [st |-> "idle"]

\* no DataResolver exists
Idle ==
    /\ doc = NoDoc
    /\ files = <<>>
    /\ global_ctx = PyNone
    /\ global_ctx_source = NoSource
    /\ pc = "idle"
    /\ idx = 1
    /\ pending = NoPending
    /\ out = PyNone
    /\ frames = <<>>
    /\ result = PyNone
    /\ resolved = <<>>

\* no executor and no stage command runs
Quiet ==
    /\ pool = NoPool
    /\ runner = NoRunner

----------------------------------------------------------------------------
(* Inputs of merge_update: small trees of plain values *)

\* the largest integer leaf of a generated tree
MaxInt == 1

Leaves == {PyInt(i) : i \in 1..MaxInt} \cup {PyList(<<PyInt(1)>>)}

MkDict(va, vb) ==
    [k \in {x \in {kA, kB} : (IF x = kA THEN va ELSE vb) # Absent} |->
        IF k = kA THEN va ELSE vb]

\* dicts over the keys a and b whose values are leaves
FlatDicts == {MkDict(va, vb) : va \in {Absent} \cup Leaves, vb \in {Absent} \cup Leaves}

\* dicts over a and b where a may hold a flat dict
Trees ==
    {MkDict(va, vb) :
        va \in {Absent} \cup Leaves \cup {PyDict(d) : d \in FlatDicts},
        vb \in {Absent} \cup Leaves}

\* "params.yaml", "o.yaml" and "p.yaml"
ParamsFile == <<"p", "a", "r", "a", "m", "s", ".", "y", "a", "m", "l">>
OtherFile == <<"o", ".", "y", "a", "m", "l">>

\* a source of merge_update: a plain dict (as vars) or a loaded Context
MergeSources == {PyDict(d) : d \in Trees} \cup {load_from(d, OtherFile) : d \in Trees}

\* the trees without the top-level key b
NarrowTrees == {d \in Trees : kB \notin DOMAIN d}

SecondFile == <<"p", ".", "y", "a", "m", "l">>

\* the arguments of one call: one source, or two loaded Contexts
MergeArgs ==
    {<<s>> : s \in MergeSources}
    \cup {<<load_from(d1, OtherFile), load_from(d2, SecondFile)>> :
              d1 \in NarrowTrees, d2 \in NarrowTrees}

InitMerge ==
    /\ ctx \in {load_from(d, ParamsFile) : d \in Trees}
    /\ op = NoOp
    /\ scope = "out"
    /\ origin = Loaded
    /\ Idle
    /\ Quiet

\* ctx.merge_update(*args, overwrite=overwrite), called once
MergeUpdate ==
    /\ op.name = "init"
    /\ \E args \in MergeArgs, overwrite \in BOOLEAN :
          \E r \in {merge_update(ctx, args, overwrite)} :
              /\ ctx' = r.ctx
              /\ op' = [name |-> "merge_update", pre |-> ctx, args |-> args,
                        overwrite |-> overwrite, ret |-> r.ret]
    /\ UNCHANGED <<scope, origin, driver, others>>

NextMerge == MergeUpdate

SpecMerge == InitMerge /\ [][NextMerge]_vars

----------------------------------------------------------------------------
(* Inputs of format_string, resolve and set: templates and parameter files *)

\* the longest template that is generated character by character
MaxLen == 4

TplChars == {"\\", "$", "{", "}", "a"}

RECURSIVE StringsUpTo(_)
StringsUpTo(n) ==
    IF n = 0 THEN {<<>>}
    ELSE StringsUpTo(n - 1)
         \cup {Append(t, c) : t \in StringsUpTo(n - 1), c \in TplChars}

kL == <<"l">>
kM == <<"m">>
kN == <<"n">>
kX == <<"x">>

Esc(name) == <<"\\", "$", "{">> \o name \o <<"}">>
Tok(name) == <<"$", "{">> \o name \o <<"}">>

LongerTemplates ==
    {Esc(kA), Esc(kN), <<"$", "{", "{", "a", "}", "}">>, Tok(<<"m", ".", "l">>),
     Tok(<<"l", ".", "0">>), Tok(<<"l", ".", "5">>), Tok(kL), Tok(kM), Tok(kB),
     Tok(kN), Tok(<<" ", "a", " ">>), Tok(<<"a", ".", "b">>),
     <<"x">> \o Tok(kA), Tok(kA) \o <<"-">>, Tok(kA) \o <<" ", "x">>,
     Tok(kA) \o Tok(kB), Tok(kB) \o <<"-">> \o Tok(<<"m", ".", "l">>),
     <<"x">> \o Esc(kN) \o Tok(kB), Esc(kA) \o Tok(kN),
     <<"\\">> \o Esc(kA), <<"x", "-", "y">>,
     Tok(<<"l", ".", "x">>), Tok(<<"m", ".", "l", ".", "a">>),
     Tok(<<"l", "[", "0", "]">>), <<"x", " ">> \o Tok(<<"m", "[", "l", "]">>)}

Templates == StringsUpTo(MaxLen) \cup LongerTemplates

\* the contents of the parameters file, as the loader returns them
ParamsContents ==
    {(kA :> PyInt(5)) @@ (kB :> PyBool(TRUE)) @@ (kM :> PyDict(kL :> PyInt(1)))
        @@ (kL :> PyList(<<PyInt(1), PyInt(2)>>)),
     (kA :> PyStr(<<"\\", "$", "{">>)) @@ (kB :> PyStr(kX)) @@ (kM :> PyNone),
     (kA :> PyStr(kX)) @@ (kB :> PyInt(0))}

\* the blocks Context.set is called with
SetBlocks ==
    {(kX :> PyStr(t)) : t \in {Tok(kA), Tok(kA) \o <<"-", "x">>, kX, Tok(kN), Esc(kA)}}
    \cup {(kA :> PyInt(2)), (kX :> PyInt(2)) @@ (kN :> PyStr(Tok(kX))),
          (kX :> PyList(<<PyInt(1), PyStr(Tok(kA))>>)),
          (kX :> PyList(<<PyList(<<>>)>>)), (kX :> PyDict(kA :> PyInt(1)))}

InitFmt ==
    /\ ctx \in {load_from(d, ParamsFile) : d \in ParamsContents}
    /\ op = NoOp
    /\ scope = "out"
    /\ origin = Loaded
    /\ Idle
    /\ Quiet

\* c = Context.clone(ctx); the operations that follow are applied to c
Clone ==
    /\ op = NoOp /\ scope = "out" /\ origin = Loaded
    /\ ctx' = clone(ctx)
    /\ origin' = [how |-> "clone", of |-> ctx]
    /\ UNCHANGED <<op, scope, driver, others>>

\* entering `with ctx.track():`
TrackEnter ==
    /\ op = NoOp /\ scope = "out"
    /\ ctx' = [ctx EXCEPT !.track = TRUE]
    /\ scope' = "in"
    /\ UNCHANGED <<op, origin, driver, others>>

\* leaving the block normally: the statement after the yield runs
TrackExit ==
    /\ scope = "in"
    /\ ctx' = [ctx EXCEPT !.track = FALSE]
    /\ scope' = "out"
    /\ UNCHANGED <<op, origin, driver, others>>

\* an operation called once on ctx, inside or outside a track() block; an
\* exception raised inside the block leaves it without running what follows
\* the yield
Applied(name, arg, unwrap, r) ==
    /\ ctx' = r.ctx
    /\ op' = [name |-> name, pre |-> ctx, arg |-> arg, unwrap |-> unwrap,
              ret |-> r.ret]
    /\ scope' = IF IsErr(r.ret) THEN "out" ELSE scope
    /\ UNCHANGED <<origin, driver, others>>

\* ctx.format_string(s, unwrap)
FormatString ==
    /\ op = NoOp
    /\ \E t \in Templates, unwrap \in BOOLEAN :
          Applied("format_string", t, unwrap, format_string(ctx, PyStr(t), unwrap))

\* interpolate.resolve(s, ctx, unwrap)
Resolve ==
    /\ op = NoOp
    /\ \E t \in Templates, unwrap \in BOOLEAN :
          Applied("resolve", t, unwrap, resolve(PyStr(t), ctx, unwrap))

\* ctx.set(to_set)
Set ==
    /\ op = NoOp
    /\ \E to_set \in SetBlocks :
          Applied("set", to_set, FALSE, Context_set(ctx, to_set))

NextFmt == Clone \/ TrackEnter \/ TrackExit \/ FormatString \/ Resolve \/ Set

SpecFmt == InitFmt /\ [][NextFmt]_vars

----------------------------------------------------------------------------
(* Paths and values of a tree, read off the data directly *)

IsList(x) == (IsNode(x) /\ x.kind = "CtxList") \/ (IsRaw(x) /\ x.t = "list")

ListItems(x) == IF IsNode(x) THEN x.data ELSE x.items

RECURSIVE KeyPaths(_)
\* the key paths of a mapping: the sequences of keys that lead through
\* mappings to a value
KeyPaths(x) ==
    UNION {{<<k>>} \cup (IF IsMapping(Items(x)[k])
                         THEN {<<k>> \o p : p \in KeyPaths(Items(x)[k])}
                         ELSE {}) : k \in DOMAIN Items(x)}

RECURSIVE ValueAt(_, _)
\* the value a key path leads to
ValueAt(x, p) ==
    IF Len(p) = 1 THEN Items(x)[p[1]] ELSE ValueAt(Items(x)[p[1]], Tail(p))

\* the key paths that lead to a value that is not a mapping
LeafPaths(x) == {p \in KeyPaths(x) : ~IsMapping(ValueAt(x, p))}

ProperPrefixes(p) == {SubSeq(p, 1, n) : n \in 1..(Len(p) - 1)}

RECURSIVE ToRaw(_)
\* the plain value a node (or a plain value) stands for
ToRaw(x) ==
    IF IsMapping(x) THEN PyDict([k \in DOMAIN Items(x) |-> ToRaw(Items(x)[k])])
    ELSE IF IsList(x)
    THEN PyList([i \in 1..Len(ListItems(x)) |-> ToRaw(ListItems(x)[i])])
    ELSE IF IsNode(x) THEN x.value
    ELSE x

RECURSIVE SelectPaths(_)
\* the paths select can follow in a tree of nodes: keys and list indexes
SelectPaths(x) ==
    IF IsNode(x) /\ x.kind = "CtxDict"
    THEN UNION {{<<k>>} \cup {<<k>> \o p : p \in SelectPaths(x.data[k])} :
                    k \in DOMAIN x.data}
    ELSE IF IsNode(x) /\ x.kind = "CtxList"
    THEN UNION {{<<StrInt(i - 1)>>}
                  \cup {<<StrInt(i - 1)>> \o p : p \in SelectPaths(x.data[i])} :
                    i \in 1..Len(x.data)}
    ELSE {}

\* two mappings define a common key path and not both values are mappings
Collides(x, y) ==
    \E p \in KeyPaths(x) \cap KeyPaths(y) :
        ~(IsMapping(ValueAt(x, p)) /\ IsMapping(ValueAt(y, p)))

Parties == <<op.pre>> \o op.args

----------------------------------------------------------------------------
(* C3: merge_update with overwrite disabled.  When the target and a source   *)
(* (or two sources of the same call) define a common key path whose two      *)
(* values are not both mappings, the call raises the "cannot overwrite"      *)
(* ValueError; when the call returns normally, every path that select could  *)
(* follow in the target before can still be followed, to the same node when  *)
(* the node is a Value or a list and to a mapping when it was a mapping.     *)
C3_MergeNoOverwrite ==
    (op.name = "merge_update" /\ ~op.overwrite) =>
        /\ (\E i, j \in 1..Len(Parties) : i < j /\ Collides(Parties[i], Parties[j]))
              => (IsErr(op.ret) /\ op.ret.exc = "ValueError"
                                /\ op.ret.what = "cannot overwrite")
        /\ ~IsErr(op.ret) =>
              \A p \in SelectPaths(op.pre) :
                  LET before == select(op.pre, JoinDot(p))
                      after == select(ctx, JoinDot(p))
                  IN /\ ~IsErr(after)
                     /\ IF IsMapping(before) THEN IsMapping(after)
                        ELSE after = before

\* a merge without overwrite that met a scalar where the source has a mapping
C3_Witness_Raised ==
    /\ op.name = "merge_update" /\ ~op.overwrite /\ IsErr(op.ret)
    /\ Len(op.args) = 1
    /\ \E p \in KeyPaths(op.pre) \cap KeyPaths(op.args[1]) :
          ~IsMapping(ValueAt(op.pre, p)) /\ IsMapping(ValueAt(op.args[1], p))

\* the last source of the call that defines the key path p
LastDefining(p) ==
    CHOOSE j \in 1..Len(op.args) :
        /\ p \in KeyPaths(op.args[j])
        /\ \A k \in (j + 1)..Len(op.args) : p \notin KeyPaths(op.args[k])

Replaces(j, p) ==
    \/ p \in KeyPaths(op.args[j])
    \/ \E q \in ProperPrefixes(p) : q \in LeafPaths(op.args[j])

----------------------------------------------------------------------------
(* Templates and paths, read off the characters directly *)

\* s is ${inner} or ${{inner}} with inner made of characters of the class
ExactForm(s) ==
    /\ Len(s) >= 3 /\ s[1] = "$" /\ s[2] = "{" /\ s[Len(s)] = "}"
    /\ IF s[3] = "{"
       THEN /\ Len(s) >= 6 /\ s[Len(s) - 1] = "}"
            /\ \A k \in 4..(Len(s) - 2) : s[k] \in InnerClass
       ELSE \A k \in 3..(Len(s) - 1) : s[k] \in InnerClass

InnerOf(s) ==
    IF s[3] = "{" THEN SubSeq(s, 4, Len(s) - 2) ELSE SubSeq(s, 3, Len(s) - 1)

RECURSIVE Segs(_)
\* the segments of a dotted path, stripped
Segs(path) ==
    IF \E i \in 1..Len(path) : path[i] = "."
    THEN LET parts == SplitDot(path) IN <<Strip(parts[1])>> \o Segs(parts[2])
    ELSE <<Strip(path)>>

NotThere == [t |-> "absent"]

RECURSIVE WalkAt(_, _)
\* the node the segments lead to through CtxDict keys and CtxList indexes
\* written as digits, or NotThere
WalkAt(x, segs) ==
    IF segs = <<>> THEN x
    ELSE IF IsNode(x) /\ x.kind = "CtxDict" /\ Head(segs) \in DOMAIN x.data
    THEN WalkAt(x.data[Head(segs)], Tail(segs))
    ELSE IF /\ IsNode(x) /\ x.kind = "CtxList" /\ Head(segs) # <<>>
            /\ \A i \in 1..Len(Head(segs)) : IsDigit(Head(segs)[i])
            /\ NatOf(Head(segs)) < Len(x.data)
    THEN WalkAt(x.data[NatOf(Head(segs)) + 1], Tail(segs))
    ELSE NotThere

\* the str a format_string or resolve call returned
RetStr(ret) == IF IsNode(ret) THEN ret.value.s ELSE ret.s

IsFormatOp == op # NoOp /\ op.name \in {"format_string", "resolve"}

\* the literal text before the i-th token (after the last one for i = n + 1)
Literal(s, matches, i) ==
    SubSeq(s, IF i = 1 THEN 1 ELSE matches[i - 1].end + 1,
              IF i > Len(matches) THEN Len(s) ELSE matches[i].start - 1)

\* the str of the node the i-th token selects
TokenStr(c, matches, i) == PyStrOf(WalkAt(c, Segs(matches[i].inner)))

\* every token replaced by the str of its node; the literal text goes
\* through f
Spliced(c, s, matches, f(_)) ==
    Concat([i \in 1..(2 * Len(matches) + 1) |->
               IF i % 2 = 1 THEN f(Literal(s, matches, (i + 1) \div 2))
               ELSE TokenStr(c, matches, i \div 2)])

Same(x) == x

AllThere(c, matches) ==
    \A i \in 1..Len(matches) : WalkAt(c, Segs(matches[i].inner)) # NotThere

\* a string that is exactly one token is given the native value of its node
ExactKeepsType ==
    (IsFormatOp /\ op.unwrap /\ ExactForm(op.arg)) =>
        LET n == WalkAt(op.pre, Segs(InnerOf(op.arg))) IN
        n # NotThere => op.ret = (IF n.kind = "Value" THEN n.value ELSE n)

(* C5 as stated: a string that is exactly one token is given the native      *)
(* value of its node, and a string with literal text around or between its   *)
(* tokens is given the str in which every token is replaced by the str of    *)
(* its node (the literal text losing the backslash of an escaped ${).        *)
C5_TokensReplacedByStr ==
    /\ ExactKeepsType
    /\ (IsFormatOp /\ op.unwrap /\ ~ExactForm(op.arg)) =>
          LET matches == _get_matches(op.arg) IN
          (matches # <<>> /\ AllThere(op.pre, matches)) =>
              op.ret = PyStr(Spliced(op.pre, op.arg, matches, Unescape))

(* C5, amended: a string that is exactly one token is given the native value *)
(* of its node; a string with literal text around or between its tokens is   *)
(* given the str in which every token is replaced by the str of its node and *)
(* in which, after that, every backslash-dollar-brace is replaced by         *)
(* dollar-brace, also one that a replaced token brought in.                  *)
C5_TokensReplacedThenUnescaped ==
    /\ ExactKeepsType
    /\ (IsFormatOp /\ op.unwrap /\ ~ExactForm(op.arg)) =>
          LET matches == _get_matches(op.arg) IN
          (matches # <<>> /\ AllThere(op.pre, matches)) =>
              op.ret = PyStr(Unescape(Spliced(op.pre, op.arg, matches, Same)))

\* a token followed by literal text selected a str that holds an escaped
\* brace, and the result holds it unescaped
C5_Witness_ValueUnescaped ==
    /\ IsFormatOp /\ op.name = "format_string" /\ op.unwrap
    /\ op.arg = Tok(kA) \o <<"-">>
    /\ op.pre.data[kA].value = PyStr(<<"\\", "$", "{">>)
    /\ op.ret = PyStr(<<"$", "{", "-">>)

----------------------------------------------------------------------------
\* positions p..e of s hold a backslash and ${name}
EscAt(s, p, e) ==
    /\ p >= 1 /\ e <= Len(s) /\ e > p + 3
    /\ s[p] = "\\" /\ s[p + 1] = "$" /\ s[p + 2] = "{" /\ s[e] = "}"
    /\ \A k \in (p + 3)..(e - 1) : s[k] \in WordChars

Contains(hay, needle) ==
    \E i \in 1..(Len(hay) - Len(needle) + 1) :
        SubSeq(hay, i, i + Len(needle) - 1) = needle

(* C6: where a template holds a backslash followed by ${name}, no match of   *)
(* the grammar covers any of these characters, so name is not selected; the  *)
(* result, when there is one, holds ${name} without the backslash; and a     *)
(* template that is nothing but the escaped ${name} raises nothing, also     *)
(* when name is not declared, tracks nothing, also when tracking is on, and  *)
(* results in ${name}.                                                       *)
C6_EscapeIsLiteral ==
    IsFormatOp =>
        \A p \in 1..Len(op.arg), e \in 1..Len(op.arg) :
            EscAt(op.arg, p, e) =>
                /\ \A i \in 1..Len(_get_matches(op.arg)) :
                      \/ _get_matches(op.arg)[i].end < p
                      \/ _get_matches(op.arg)[i].start > e
                /\ ~IsErr(op.ret) =>
                      Contains(RetStr(op.ret), SubSeq(op.arg, p + 1, e))
                /\ (p = 1 /\ e = Len(op.arg)) =>
                      /\ ~IsErr(op.ret)
                      /\ RetStr(op.ret) = SubSeq(op.arg, 2, e)
                      /\ ctx.tracked = op.pre.tracked

\* the escaped name of an undeclared key was formatted while tracking
C6_Witness_Undeclared ==
    /\ IsFormatOp /\ op.name = "format_string" /\ op.pre.track
    /\ op.arg = Esc(kN) /\ kN \notin DOMAIN op.pre.data
    /\ op.ret = PyStr(Tok(kN)) /\ ctx.tracked = {}

----------------------------------------------------------------------------
RECURSIVE NodesBelow(_)
\* the nodes stored in a container, at any depth
NodesBelow(x) ==
    IF IsNode(x) /\ x.kind = "CtxDict"
    THEN UNION {{x.data[k]} \cup NodesBelow(x.data[k]) : k \in DOMAIN x.data}
    ELSE IF IsNode(x) /\ x.kind = "CtxList"
    THEN UNION {{x.data[i]} \cup NodesBelow(x.data[i]) : i \in 1..Len(x.data)}
    ELSE {}

----------------------------------------------------------------------------
(* dvc/parsing/__init__.py: DataResolver *)

STAGES_KWD == <<"s", "t", "a", "g", "e", "s">>
SET_KWD == <<"s", "e", "t">>
FOREACH_KWD == <<"f", "o", "r", "e", "a", "c", "h">>
IN_KWD == <<"i", "n">>
USE_KWD == <<"u", "s", "e">>
VARS_KWD == <<"v", "a", "r", "s">>
WDIR_KWD == <<"w", "d", "i", "r">>
DEFAULT_PARAMS_FILE == ParamsFile
PARAMS_KWD == <<"p", "a", "r", "a", "m", "s">>

\* the directory of dvc.yaml
yaml_wdir == <<".">>

\* PathInfo.__truediv__: dir / name
PathJoin(dir, name) == IF dir = <<".">> THEN name ELSE dir \o <<"/">> \o name

\* d.get(key, default) of a dict d
Get(d, key, default) == IF key \in DOMAIN d THEN d[key] ELSE default

\* d without key, as d.pop(key, ...) leaves it
Without(d, key) == [k \in DOMAIN d \ {key} |-> d[k]]

\* bool(x) of a plain value
Truthy(x) ==
    CASE x.t = "none" -> FALSE
      [] x.t = "bool" -> x.b
      [] x.t = "int" -> x.i # 0
      [] x.t = "str" -> x.s # <<>>
      [] x.t = "list" -> x.items # <<>>
      [] x.t = "dict" -> DOMAIN x.d # {}
      [] OTHER -> TRUE

\* Context.tracked: the defaultdict(set) itself
Context_tracked(self) == [t |-> "defaultdict", d |-> self.tracked]

\* a + b where a is a list: list.__add__ takes a list only
ListPlus(a, b) ==
    IF b.t = "list" THEN PyList(a.items \o b.items)
    ELSE Err("TypeError", "can only concatenate list to list", <<>>)

RECURSIVE SetFromKeys(_, _, _)
\* the loop of _set_context_from over the keys that remain: [ctx, ret]
SetFromKeys(context, to_set, keys) ==
    IF keys = <<>> THEN [ctx |-> context, ret |-> PyNone]
    ELSE With(resolve(to_set[Head(keys)], context, FALSE), LAMBDA r :
             IF IsErr(r.ret) THEN r
             ELSE With(SetItem(r.ctx, Head(keys), r.ret), LAMBDA s :
                      IF IsErr(s.err) THEN [ctx |-> s.into, ret |-> s.err]
                      ELSE SetFromKeys(s.into, to_set, Tail(keys))))

\* _set_context_from(context, to_set): [ctx, ret]
_set_context_from(context, to_set) ==
    SetFromKeys(context, to_set.d, Order(DOMAIN to_set.d))

\* a PathInfo
PathInfo(path) == [t |-> "path", s |-> path]

\* _resolve_wdir(context, wdir): [ctx, ret], ret a PathInfo
_resolve_wdir(context, wdir) ==
    IF ~Truthy(wdir) THEN [ctx |-> context, ret |-> PathInfo(yaml_wdir)]
    ELSE With(resolve(wdir, context, FALSE), LAMBDA r :
             IF IsErr(r.ret) THEN r
             ELSE [ctx |-> r.ctx,
                   ret |-> PathInfo(PathJoin(yaml_wdir, PyStrOf(r.ret)))])

\* the loader of a parameters file: its mapping, or the file is not there
LoadFile(fs, path) ==
    IF path \in DOMAIN fs THEN load_from(fs[path], path)
    ELSE Err("FileNotFoundError", "no such file", path)

RECURSIVE LoadListed(_, _, _, _)
\* the Contexts loaded for the dicts of a stage's params list, from item i on
LoadListed(fs, wdir, items, i) ==
    IF i > Len(items) THEN <<>>
    ELSE IF IsRaw(items[i]) /\ items[i].t = "dict" /\ Truthy(items[i])
    THEN With(LoadFile(fs, PathJoin(wdir, Order(DOMAIN items[i].d)[1])), LAMBDA c :
             IF IsErr(c) THEN <<c>>
             ELSE <<c>> \o LoadListed(fs, wdir, items, i + 1))
    ELSE LoadListed(fs, wdir, items, i + 1)

\* what one call of _resolve_stage leaves: the stage's name, its context, the
\* resolved definition if resolution got that far, and what was returned or raised
Frame(name, context, stage_d, ret) ==
    [name |-> name, context |-> context, stage_d |-> stage_d, ret |-> ret]

\* the frame of a call, with the definition the call was given
Called(definition, frame) ==
    [name |-> frame.name, context |-> frame.context, stage_d |-> frame.stage_d,
     ret |-> frame.ret, definition |-> definition]

\* the Contexts _resolve_stage loads, lines 85-102: params.yaml of wdir unless
\* it is the source of the global parameters, then the files of params_file
Contexts(source, fs, wdir, params_file) ==
    (IF source # PathJoin(wdir, DEFAULT_PARAMS_FILE)
        /\ PathJoin(wdir, DEFAULT_PARAMS_FILE) \in DOMAIN fs
     THEN <<LoadFile(fs, PathJoin(wdir, DEFAULT_PARAMS_FILE))>> ELSE <<>>)
    \o LoadListed(fs, wdir, params_file.items, 1)

\* _resolve_stage(context, name, definition) of a resolver whose global
\* parameters came from source, with the files fs: a Frame
_resolve_stage(source, fs, context, name, definition) ==
    With(_set_context_from(context, Get(definition, SET_KWD, PyDict(EmptyDict))),
         LAMBDA s :
    IF IsErr(s.ret) THEN Frame(name, s.ctx, Absent, s.ret)
    ELSE
    With(Without(definition, SET_KWD), LAMBDA defn :
    With(_resolve_wdir(s.ctx, Get(defn, WDIR_KWD, PyNone)), LAMBDA w :
    IF IsErr(w.ret) THEN Frame(name, w.ctx, Absent, w.ret)
    ELSE
    With(Contexts(source, fs, w.ret.s, Get(defn, PARAMS_KWD, PyList(<<>>))),
         LAMBDA contexts :
    IF HasErr(contexts) THEN Frame(name, w.ctx, Absent, FirstErr(contexts))
    ELSE
    With(merge_update(w.ctx, contexts, FALSE), LAMBDA m :
    IF IsErr(m.ret) THEN Frame(name, m.ctx, Absent, m.ret)
    ELSE
    With(resolve(PyDict(defn), [m.ctx EXCEPT !.track = TRUE], TRUE), LAMBDA r :
    IF IsErr(r.ret) THEN Frame(name, r.ctx, Absent, r.ret)
    ELSE
    With([r.ctx EXCEPT !.track = FALSE], LAMBDA c :
    With(ListPlus(Get(r.ret.d, PARAMS_KWD, PyList(<<>>)), Context_tracked(c)),
         LAMBDA params :
    IF IsErr(params) THEN Frame(name, c, r.ret, params)
    ELSE Frame(name, c, r.ret,
               PyDict(name :> (IF Truthy(params)
                               THEN PyDict(Put(r.ret.d, PARAMS_KWD, params))
                               ELSE r.ret)))))))))))

DEFAULT_SENTINEL == [t |-> "sentinel"]

kItem == <<"i", "t", "e", "m">>
kKey == <<"k", "e", "y">>

\* each_iter(value, key) of _foreach(context, name, foreach_data, in_data): a Frame
each_iter(source, fs, context, name, in_data, value, key) ==
    With(SetItem(clone(context), kItem, value), LAMBDA c1 :
    With(IF key # DEFAULT_SENTINEL /\ ~IsErr(c1.err)
         THEN SetItem(c1.into, kKey, key) ELSE c1, LAMBDA c2 :
    With(name \o <<"-">> \o PyStrOf(IF key # DEFAULT_SENTINEL THEN key ELSE value),
         LAMBDA stage :
    IF IsErr(c2.err) THEN Frame(stage, c2.into, Absent, c2.err)
    ELSE _resolve_stage(source, fs, c2.into, stage, in_data))))

\* x is a str, bare or boxed in a Value or a String
IsStr(x) ==
    IF IsNode(x) THEN x.kind \in {"Value", "String"} /\ x.value.t = "str"
    ELSE x.t = "str"

\* an isinstance(x, Sequence) that takes what holds a str for the str
IsSequence_Str(x) ==
    IsStr(x) \/ (IF IsNode(x) THEN x.kind = "CtxList" ELSE x.t = "list")

\* isinstance(x, Sequence) of what resolve returned: a CtxList or a list; a
\* Value and a String are no Sequence, whatever they hold
IsSequence(x) == IF IsNode(x) THEN x.kind = "CtxList" ELSE x.t = "list"

\* the elements of a Sequence in iteration order, a str giving its characters
SeqElements(x) ==
    IF IsStr(x)
    THEN [i \in 1..Len(interpolate_unwrap(x).s) |->
             PyStr(<<interpolate_unwrap(x).s[i]>>)]
    ELSE IF IsNode(x) THEN x.data ELSE x.items

\* the (value, key) pairs _foreach iterates over
IterItems(x) ==
    IF IsSequence(x)
    THEN [i \in 1..Len(SeqElements(x)) |->
             [value |-> SeqElements(x)[i], key |-> DEFAULT_SENTINEL]]
    ELSE LET d == Items(x)
             ks == Order(DOMAIN d)
         IN [i \in 1..Len(ks) |-> [value |-> d[ks[i]], key |-> PyStr(ks[i])]]

\* the select key of the Node a foreach over foreach_data iterates: resolve
\* returns the Node of context itself for a string that is exactly one
\* expression (and a new list or dict for a literal one, <<>> here)
Selected(foreach_data) ==
    IF foreach_data.t = "str"
       /\ IsExact(foreach_data.s, _get_matches(foreach_data.s))
    THEN _get_matches(foreach_data.s)[1].inner
    ELSE <<>>

RECURSIVE Rebind(_, _, _, _)
\* self after the child at hop of the Node that self.select(key) returns was
\* changed in place to node
Rebind(self, key, hop, node) ==
    LET parts == SplitDot(key)
        index == Strip(parts[1])
        pos == IF self.kind # "CtxList" THEN index
               ELSE IF ParseInt(index).i >= 0 THEN ParseInt(index).i + 1
               ELSE Len(self.data) + ParseInt(index).i + 1
    IN [self EXCEPT !.data[pos] =
            IF Len(parts) = 1 THEN [@ EXCEPT !.data[hop] = node]
            ELSE Rebind(@, parts[2], hop, node)]

\* the context of _foreach once each_iter has run on its clone c: deepcopy
\* copies context.data, but c["item"] = value stores the child Node of context
\* itself (_convert returns a Node as it is), so what was merged into the item
\* of c is merged into context
Aliased(p, c) ==
    IF p.selected = <<>> \/ kItem \notin DOMAIN c.data THEN p.context
    ELSE Rebind(p.context, p.selected,
                IF p.kind = "seq" THEN p.next ELSE p.items[p.next].key.s,
                c.data[kItem])

\* dict.update as join applies it to what an entry returned
Update(acc, d) ==
    IF d = PyNone
    THEN Err("TypeError", "'NoneType' object is not iterable", <<>>)
    ELSE IF acc = PyNone THEN d
    ELSE PyDict([k \in DOMAIN acc.d \cup DOMAIN d.d |->
                    IF k \in DOMAIN d.d THEN d.d[k] ELSE acc.d[k]])

\* funcy.join when the generator yields d, acc being what it joined before:
\* the first element must be a collection, the others update a copy of it
Join(acc, first, d) ==
    IF first /\ d = PyNone
    THEN Err("TypeError", "Don't know how to join NoneType", <<>>)
    ELSE Update(acc, d)

----------------------------------------------------------------------------
(* DataResolver: construction and resolve(), one entry of stages at a time *)

\* a resolve() that swallows e and returns what it joined so far
Raise_Partial(e) ==
    /\ pc' = "done"
    /\ result' = PyDict(STAGES_KWD :> out)

\* resolve() ends by raising e
Raise(e) ==
    /\ pc' = "error"
    /\ result' = e

\* what DataResolver(repo, yaml_wdir, d) leaves, lines 38-54: global_ctx,
\* global_ctx_source and the exception of merge_update, if any
Bootstrap(d, fs) ==
    With(PathJoin(yaml_wdir, IF d.use = Absent THEN DEFAULT_PARAMS_FILE ELSE d.use.s),
         LAMBDA to_import :
    With(IF to_import \in DOMAIN fs THEN LoadFile(fs, to_import)
         ELSE Context(EmptyDict, PyNone), LAMBDA g :
    With(merge_update(g, <<IF d.vars = Absent THEN PyDict(EmptyDict) ELSE d.vars>>,
                      FALSE), LAMBDA m :
        [ctx |-> m.ctx,
         source |-> IF to_import \in DOMAIN fs THEN to_import ELSE NoSource,
         ret |-> m.ret])))

\* DataResolver(repo, yaml_wdir, doc): lines 38-54
Construct ==
    /\ pc = "new"
    /\ \E b \in {Bootstrap(doc, files)} :
          /\ global_ctx' = b.ctx
          /\ global_ctx_source' = b.source
          /\ IF IsErr(b.ret) THEN Raise(b.ret)
             ELSE pc' = "ready" /\ UNCHANGED result
    /\ UNCHANGED <<unit, others, doc, files, idx, pending, out, frames, resolved>>

\* the entry of stages resolve() is at
Entry == doc.stages[idx]

\* join takes d, what _resolve_entry returned for the entry at idx
Yield(d) ==
    \E j \in {Join(out, idx = 1, d)} :
        IF IsErr(j) THEN Raise(j) /\ UNCHANGED <<out, idx>>
        ELSE /\ out' = j
             /\ idx' = idx + 1
             /\ pc' = "ready"
             /\ UNCHANGED result

\* _resolve_entry(name, definition) of an entry without foreach: lines 57-58,
\* 67 and the whole of _resolve_stage
ResolveEntry ==
    /\ pc = "ready"
    /\ idx <= Len(doc.stages)
    /\ FOREACH_KWD \notin DOMAIN Entry.definition.d
    /\ \E s \in {_set_context_from(clone(global_ctx),
                     Get(Entry.definition.d, SET_KWD, PyDict(EmptyDict)))} :
          IF IsErr(s.ret)
          THEN Raise(s.ret) /\ UNCHANGED <<out, idx, frames>>
          ELSE \E f \in {_resolve_stage(global_ctx_source, files, s.ctx,
                                        Entry.name, Entry.definition.d)} :
                  /\ frames' = Append(frames, Called(Entry.definition.d, f))
                  /\ IF IsErr(f.ret) THEN Raise(f.ret) /\ UNCHANGED <<out, idx>>
                     ELSE Yield(f.ret)
    /\ UNCHANGED <<unit, others, doc, files, global_ctx, global_ctx_source, pending, resolved>>

\* _resolve_entry of an entry with foreach, up to the generator of _foreach:
\* lines 57-65 and 128-134
ForeachBegin ==
    /\ pc = "ready"
    /\ idx <= Len(doc.stages)
    /\ FOREACH_KWD \in DOMAIN Entry.definition.d
    /\ \E d \in {Entry.definition.d} :
       \E s \in {_set_context_from(clone(global_ctx),
                                   Get(d, SET_KWD, PyDict(EmptyDict)))} :
          IF IsErr(s.ret) THEN Raise(s.ret) /\ UNCHANGED pending
          ELSE IF IN_KWD \notin DOMAIN d
          THEN /\ Raise(Err("Exception", "foreach needs a in", Entry.name))
               /\ UNCHANGED pending
          ELSE \E r \in {resolve(d[FOREACH_KWD], s.ctx, FALSE)} :
               IF IsErr(r.ret) THEN Raise(r.ret) /\ UNCHANGED pending
               ELSE IF ~IsSequence(r.ret) /\ ~IsMapping(r.ret)
               THEN /\ Raise(Err("Exception", "got type of", Entry.name))
                    /\ UNCHANGED pending
               ELSE /\ pending' = [name |-> Entry.name, context |-> r.ctx,
                                   in_data |-> d[IN_KWD],
                                   kind |-> IF IsSequence(r.ret) THEN "seq" ELSE "map",
                                   items |-> IterItems(r.ret), next |-> 1,
                                   joined |-> PyNone, base |-> Len(frames),
                                   selected |-> Selected(d[FOREACH_KWD])]
                    /\ pc' = "each"
                    /\ UNCHANGED result
    /\ UNCHANGED <<unit, others, doc, files, global_ctx, global_ctx_source, idx, out, frames,
                   resolved>>

\* join(gen) takes the next element of the generator: each_iter, lines 121-126
EachIter ==
    /\ pc = "each"
    /\ pending.next <= Len(pending.items)
    /\ \E f \in {each_iter(global_ctx_source, files, pending.context, pending.name,
                           pending.in_data.d, pending.items[pending.next].value,
                           pending.items[pending.next].key)} :
          /\ frames' = Append(frames, Called(pending.in_data.d, f))
          /\ IF IsErr(f.ret)
             THEN /\ Raise(f.ret)
                  /\ pending' = [pending EXCEPT !.context = Aliased(pending, f.context)]
             ELSE \E j \in {Join(pending.joined, pending.next = 1, f.ret)} :
                  IF IsErr(j)
                  THEN /\ Raise(j)
                       /\ pending' = [pending EXCEPT
                                          !.context = Aliased(pending, f.context)]
                  ELSE /\ pending' = [pending EXCEPT
                                          !.context = Aliased(pending, f.context),
                                          !.next = @ + 1, !.joined = j]
                       /\ UNCHANGED <<pc, result>>
    /\ UNCHANGED <<unit, others, doc, files, global_ctx, global_ctx_source, idx, out, resolved>>

\* the generator is exhausted: join(gen) returns, line 135, and resolve()'s
\* join takes what it returned
ForeachEnd ==
    /\ pc = "each"
    /\ pending.next > Len(pending.items)
    /\ Yield(pending.joined)
    /\ UNCHANGED <<unit, others, doc, files, global_ctx, global_ctx_source, pending, frames,
                   resolved>>

\* every entry of stages is joined: lines 72-73
Finish ==
    /\ pc = "ready"
    /\ idx > Len(doc.stages)
    /\ result' = PyDict(STAGES_KWD :> out)
    /\ pc' = "done"
    /\ UNCHANGED <<unit, others, doc, files, global_ctx, global_ctx_source, idx, pending,
                   out, frames, resolved>>

----------------------------------------------------------------------------
(* _resolve_entry as one call *)

\* what a call of _resolve_entry leaves: the frames of its calls of
\* _resolve_stage, the entry's context and what was returned or raised
Outcome(called, context, ret) == [frames |-> called, context |-> context, ret |-> ret]

RECURSIVE _foreach(_, _, _, _)
\* join(gen) of _foreach from the position of the pending record p on, called
\* being the frames of the iterations before: lines 120-126 and 135
_foreach(source, fs, p, called) ==
    IF p.next > Len(p.items) THEN Outcome(called, p.context, p.joined)
    ELSE
    With(each_iter(source, fs, p.context, p.name, p.in_data.d,
                   p.items[p.next].value, p.items[p.next].key), LAMBDA f :
    With(IF IsErr(f.ret) THEN f.ret ELSE Join(p.joined, p.next = 1, f.ret),
         LAMBDA j :
    IF IsErr(j)
    THEN Outcome(Append(called, Called(p.in_data.d, f)), Aliased(p, f.context), j)
    ELSE _foreach(source, fs,
                  [p EXCEPT !.context = Aliased(p, f.context),
                            !.next = @ + 1, !.joined = j],
                  Append(called, Called(p.in_data.d, f)))))

\* _resolve_entry(name, definition) after its line 58, context being the clone
\* the set block was applied to: lines 60-67 and 128-135
_resolve_entry(source, fs, context, name, d) ==
    IF FOREACH_KWD \notin DOMAIN d
    THEN With(_resolve_stage(source, fs, context, name, d), LAMBDA f :
              Outcome(<<Called(d, f)>>, f.context, f.ret))
    ELSE IF IN_KWD \notin DOMAIN d
    THEN Outcome(<<>>, context, Err("Exception", "foreach needs a in", name))
    ELSE
    With(resolve(d[FOREACH_KWD], context, FALSE), LAMBDA r :
    IF IsErr(r.ret) THEN Outcome(<<>>, r.ctx, r.ret)
    ELSE IF ~IsSequence(r.ret) /\ ~IsMapping(r.ret)
    THEN Outcome(<<>>, r.ctx, Err("Exception", "got type of", name))
    ELSE _foreach(source, fs,
                  [name |-> name, context |-> r.ctx, in_data |-> d[IN_KWD],
                   kind |-> IF IsSequence(r.ret) THEN "seq" ELSE "map",
                   items |-> IterItems(r.ret), next |-> 1,
                   joined |-> PyNone, base |-> 0,
                   selected |-> Selected(d[FOREACH_KWD])],
                  <<>>))

\* a clone that is the Context it was cloned from
Original_Shared(g, c) == [g EXCEPT !.data = c.data]

\* the Context g after its clone c was worked on: clone is cls(deepcopy(ctx.data)),
\* and a deep copy shares no object with g
Original(g, c) == g

\* a worker takes the i-th entry: lines 57-58 of _resolve_entry
Start(i) ==
    /\ pc = "ready"
    /\ resolved[i].st = "idle"
    /\ \E s \in {_set_context_from(clone(global_ctx),
                     Get(doc.stages[i].definition.d, SET_KWD, PyDict(EmptyDict)))} :
          /\ resolved' = [resolved EXCEPT ![i] =
                 IF IsErr(s.ret)
                 THEN [st |-> "done", frames |-> <<>>, ret |-> s.ret]
                 ELSE [st |-> "started", context |-> s.ctx]]
          /\ global_ctx' = Original(global_ctx, s.ctx)
    /\ UNCHANGED <<unit, others, doc, files, global_ctx_source, pc, idx, pending, out,
                   frames, result>>

\* the worker of the i-th entry runs the rest of _resolve_entry on its clone
Run(i) ==
    /\ pc = "ready"
    /\ resolved[i].st = "started"
    /\ \E o \in {_resolve_entry(global_ctx_source, files, resolved[i].context,
                                doc.stages[i].name, doc.stages[i].definition.d)} :
          /\ resolved' = [resolved EXCEPT ![i] =
                 [st |-> "done", frames |-> o.frames, ret |-> o.ret]]
          /\ global_ctx' = Original(global_ctx, o.context)
    /\ UNCHANGED <<unit, others, doc, files, global_ctx_source, pc, idx, pending, out,
                   frames, result>>

----------------------------------------------------------------------------
(* Documents and parameter files DataResolver is run on *)

\* the largest number of entries under stages
MaxStages == 2

kCmd == <<"c", "m", "d">>
kC == <<"c">>
kV == <<"v">>
kD == <<"d">>
kS == <<"s">>
kZ == <<"z">>
SubDir == <<"s", "u", "b">>

\* {cmd: <template>}
Cmd(t) == kCmd :> PyStr(t)

\* {foreach: data, in: {cmd: <template>}}
Foreach(data, t) == (FOREACH_KWD :> data) @@ (IN_KWD :> PyDict(Cmd(t)))

\* the definitions an entry of stages is drawn from
Definitions ==
    {Cmd(Tok(kA)),
     Cmd(<<"e", " ">> \o Tok(<<"m", ".", "l">>)),
     Cmd(kX),
     Cmd(Tok(kN)),
     Cmd(Tok(kB)) @@ (PARAMS_KWD :> PyList(<<PyDict(OtherFile :> PyList(<<PyStr(kB)>>))>>)),
     Cmd(kX) @@ (PARAMS_KWD :> PyList(<<PyDict(ParamsFile :> PyList(<<PyStr(kA)>>))>>)),
     Cmd(kX) @@ (PARAMS_KWD :> PyList(<<PyStr(kA)>>)),
     Cmd(Tok(kC)) @@ (WDIR_KWD :> PyStr(SubDir)),
     Cmd(Tok(kX)) @@ (SET_KWD :> PyDict(kX :> PyStr(Tok(kA) \o <<"-", "x">>))),
     Cmd(Tok(kX)) @@ (SET_KWD :> PyDict(kX :> PyStr(Tok(kA)))),
     Cmd(Tok(kX)) @@ (SET_KWD :> PyDict(kX :> PyInt(2))),
     Cmd(Tok(kA)) @@ (SET_KWD :> PyDict(kA :> PyInt(2))),
     Cmd(Tok(kV)) @@ (SET_KWD :> PyDict(kV :> PyInt(2))),
     Foreach(PyList(<<PyInt(1), PyInt(2), PyInt(3)>>), Tok(kItem)),
     Foreach(PyList(<<>>), kX),
     Foreach(PyDict((kA :> PyInt(1)) @@ (kB :> PyInt(2))), Tok(kKey)),
     (FOREACH_KWD :> PyDict((kA :> PyInt(1)) @@ (kB :> PyInt(2))))
         @@ (IN_KWD :> PyDict(Cmd(Tok(kKey)) @@ (kX :> PyStr(Tok(kItem))))),
     Foreach(PyStr(Tok(kL)), Tok(kItem)),
     Foreach(PyStr(Tok(kM)), Tok(kKey)),
     Foreach(PyStr(Tok(kA)), Tok(kItem)),
     Foreach(PyList(<<PyInt(1)>>), Tok(kItem))
         @@ (SET_KWD :> PyDict(kX :> PyStr(Tok(kA) \o <<"-", "x">>))),
     FOREACH_KWD :> PyList(<<PyInt(1)>>),
     Cmd(kX) @@ (IN_KWD :> PyDict(Cmd(kX))),
     Foreach(PyInt(1), kX),
     Foreach(PyNone, kX),
     Foreach(PyBool(TRUE), kX),
     Foreach(PyStr(<<"a", "b">>), Tok(kItem)),
     Foreach(PyStr(Tok(kS)), Tok(kItem)),
     (FOREACH_KWD :> PyStr(Tok(kD)))
         @@ (IN_KWD :> PyDict(Cmd(kX) @@ (PARAMS_KWD :>
                 PyList(<<PyDict(OtherFile :> PyList(<<PyStr(kB)>>))>>))))}

\* the definitions an entry after the first is drawn from
LaterDefinitions ==
    {Cmd(Tok(kA)),
     Cmd(Tok(kA)) @@ (SET_KWD :> PyDict(kA :> PyInt(2))),
     Foreach(PyList(<<PyInt(1), PyInt(2), PyInt(3)>>), Tok(kItem))}

\* the names of the entries, in document order
Names == <<<<"s">>, <<"t">>, <<"u">>, <<"w">>>>

RECURSIVE StageLists(_)
\* the lists of at most n entries
StageLists(n) ==
    IF n = 0 THEN {<<>>}
    ELSE StageLists(n - 1)
         \cup {Append(l, [name |-> Names[n], definition |-> PyDict(d)]) :
                  l \in {x \in StageLists(n - 1) : Len(x) = n - 1},
                  d \in IF n = 1 THEN Definitions ELSE LaterDefinitions}

Documents ==
    {[use |-> u, vars |-> v, stages |-> l] :
        u \in {Absent, PyStr(OtherFile)},
        v \in {Absent, PyDict(kV :> PyInt(1))},
        l \in StageLists(MaxStages)}

\* what exists next to dvc.yaml: params.yaml, o.yaml and sub/params.yaml
FileSystems ==
    LET global == (kA :> PyInt(5)) @@ (kM :> PyDict(kL :> PyInt(1)))
                  @@ (kL :> PyList(<<PyInt(1), PyInt(2)>>))
                  @@ (kD :> PyList(<<PyDict(kX :> PyInt(1))>>))
                  @@ (kS :> PyStr(<<"x", "y">>))
        other == (kB :> PyInt(2)) @@ (kItem :> PyDict(kZ :> PyInt(3)))
        sub == kC :> PyInt(3)
    IN {(ParamsFile :> global) @@ (OtherFile :> other)
            @@ (PathJoin(SubDir, ParamsFile) :> sub),
        OtherFile :> other}

Init ==
    /\ ctx = Context(EmptyDict, PyNone)
    /\ op = NoOp
    /\ scope = "out"
    /\ origin = Loaded
    /\ doc \in Documents
    /\ files \in FileSystems
    /\ global_ctx = PyNone
    /\ global_ctx_source = NoSource
    /\ pc = "new"
    /\ idx = 1
    /\ pending = NoPending
    /\ out = PyNone
    /\ frames = <<>>
    /\ result = PyNone
    /\ resolved = [i \in 1..Len(doc.stages) |-> NotStarted]
    /\ Quiet

Next == Construct \/ ResolveEntry \/ ForeachBegin \/ EachIter \/ ForeachEnd \/ Finish

Spec == Init /\ [][Next]_vars

\* the entries resolved by workers of their own, in any order, once the
\* resolver is constructed
NextAnyOrder ==
    \/ Construct
    \/ \E i \in 1..Len(doc.stages) : Start(i)
    \/ \E i \in 1..Len(doc.stages) : Run(i)

SpecAnyOrder == Init /\ [][NextAnyOrder]_vars

----------------------------------------------------------------------------
(* Properties of DataResolver *)

RECURSIVE StringsIn(_)
\* the strings of a plain value, at any depth
StringsIn(v) ==
    CASE v.t = "str" -> {v.s}
      [] v.t = "list" -> UNION {StringsIn(v.items[i]) : i \in 1..Len(v.items)}
      [] v.t = "dict" -> UNION {StringsIn(v.d[k]) : k \in DOMAIN v.d}
      [] OTHER -> {}

\* the expressions the templates of a definition name
Reads(definition) ==
    UNION {{_get_matches(t)[i].inner : i \in 1..Len(_get_matches(t))} :
              t \in StringsIn(PyDict(definition))}

\* the elements of a plain list, as a set
Elements(v) == {v.items[i] : i \in 1..Len(v.items)}

\* the stage a call of _resolve_stage returned lists key under file in its params
HasParam(f, file, key) ==
    /\ ~IsErr(f.ret)
    /\ f.name \in DOMAIN f.ret.d
    /\ PARAMS_KWD \in DOMAIN f.ret.d[f.name].d
    /\ \E e \in Elements(f.ret.d[f.name].d[PARAMS_KWD]) :
          /\ IsRaw(e) /\ e.t = "dict"
          /\ file \in DOMAIN e.d
          /\ \E k \in Elements(e.d[file]) : ToRaw(k) = PyStr(key)

\* the call returned the stage under its name
Emitted(f) == ~IsErr(f.ret) /\ DOMAIN f.ret.d = {f.name}

(* C1: a stage whose fields resolved having read key K of file F is emitted
   with an entry {F: [.. K ..]} in its params, and a stage's tracked set
   holds only what an expression of its own definition selects *)
C1_TrackedParamsEmitted ==
    \A i \in 1..Len(frames) :
        LET f == frames[i] IN
        /\ f.stage_d # Absent =>
              \A sk \in f.context.tracked : HasParam(f, sk[1], sk[2])
        /\ \A sk \in f.context.tracked :
              \E k \in Reads(f.definition) :
                  LET n == select(f.context, k) IN
                  IsNode(n) /\ sk \in get_sources(n)

\* the frames of the iterations made so far of the foreach being expanded
IterFrame(i) == frames[pending.base + i]
Iterated == 1..(Len(frames) - pending.base)

(* C7: a foreach over a sequence of n elements yields exactly n stages, named
   B-<str(element)> in element order, the i-th resolved with item bound to
   the i-th element and to nothing of another iteration *)
C7_SequenceForeach ==
    (pending # NoPending /\ pending.kind = "seq") =>
        /\ \A i \in Iterated :
              LET f == IterFrame(i)
                  it == pending.items[i]
              IN /\ f.name = pending.name \o <<"-">> \o PyStrOf(it.value)
                 /\ ToRaw(f.context.data[kItem]) = ToRaw(it.value)
                 /\ kKey \notin DOMAIN f.context.data
                 /\ f.stage_d # Absent => Emitted(f)
        /\ (pending.next > Len(pending.items) /\ pending.items # <<>>) =>
              DOMAIN pending.joined.d =
                  {pending.name \o <<"-">> \o PyStrOf(pending.items[i].value) :
                      i \in 1..Len(pending.items)}

(* C8: a foreach over a mapping yields exactly one stage per entry, named
   B-<key>, resolved with item bound to the entry's value and key to its key *)
C8_MappingForeach ==
    (pending # NoPending /\ pending.kind = "map") =>
        /\ \A i \in Iterated :
              LET f == IterFrame(i)
                  it == pending.items[i]
              IN /\ f.name = pending.name \o <<"-">> \o it.key.s
                 /\ ToRaw(f.context.data[kItem]) = ToRaw(it.value)
                 /\ ToRaw(f.context.data[kKey]) = it.key
                 /\ f.stage_d # Absent => Emitted(f)
        /\ (pending.next > Len(pending.items) /\ pending.items # <<>>) =>
              DOMAIN pending.joined.d =
                  {pending.name \o <<"-">> \o pending.items[i].key.s :
                      i \in 1..Len(pending.items)}

\* resolve() has applied the set block of the i-th entry
Handled(i) ==
    \/ pc \in {"ready", "done"} /\ idx > i
    \/ pc \in {"each", "error"} /\ idx = i

\* the set block of the i-th entry
SetBlock(i) == Get(doc.stages[i].definition.d, SET_KWD, PyDict(EmptyDict)).d

\* the keys a set block binds to a string that joins text and an expression
JoinedKeys(to_set) ==
    {k \in DOMAIN to_set :
        to_set[k].t = "str" /\ _check_joined_with_interpolation(to_set[k].s)}

\* the keys a set block binds to exactly one expression
ExactKeys(to_set) == {k \in DOMAIN to_set : to_set[k].t = "str" /\ ExactForm(to_set[k].s)}

(* C9: a set block that binds a key to text joined with an expression is
   rejected with a conflict error naming the key; a key bound to exactly one
   expression holds the selected value with its native type *)
C9_SetRejectsJoined ==
    \A i \in 1..Len(doc.stages) :
        Handled(i) =>
            /\ JoinedKeys(SetBlock(i)) # {} =>
                  /\ pc = "error"
                  /\ idx = i
                  /\ result.exc = "ValueError"
                  /\ result.what = "joined with interpolation"
                  /\ result.key \in JoinedKeys(SetBlock(i))
            /\ JoinedKeys(SetBlock(i)) = {} =>
                  \A k \in ExactKeys(SetBlock(i)), j \in 1..Len(frames) :
                      LET n == select(global_ctx, InnerOf(SetBlock(i)[k].s)) IN
                      (frames[j].name = doc.stages[i].name /\ IsNode(n)) =>
                          /\ k \in DOMAIN frames[j].context.data
                          /\ ToRaw(frames[j].context.data[k]) = ToRaw(n)

(* C10: a set block never replaces a binding: for every key of the block that
   the context already holds, resolution is rejected with a conflict error
   and the binding keeps its value *)
C10_SetNeverShadows ==
    \A i \in 1..Len(doc.stages) :
        Handled(i) =>
            \A k \in DOMAIN SetBlock(i) \cap DOMAIN global_ctx.data :
                /\ pc = "error"
                /\ idx = i
                /\ result.exc = "ValueError"
                /\ result.what = "key already exists"
                /\ result.key = k
                /\ \A j \in 1..Len(frames) :
                      ToRaw(frames[j].context.data[k]) = ToRaw(global_ctx.data[k])

----------------------------------------------------------------------------
(* The pairing of foreach with its body *)

DO_KWD == <<"d", "o">>

\* ForeachDo.check_foreach_do(values) of models.py: values, or the ValueError
check_foreach_do(values) ==
    LET pairs == {FOREACH_KWD, DO_KWD}
        missing_keys == pairs \ DOMAIN values.d
    IN IF missing_keys \subseteq pairs THEN values
       ELSE Err("ValueError", "foreach .. do needs to be in a pair",
                CHOOSE key \in missing_keys : TRUE)

\* resolve() ended at the i-th entry with the error of a foreach without body
PairingError(i) ==
    /\ pc = "error" /\ idx = i
    /\ result.exc = "Exception" /\ result.what = "foreach needs a in"

\* a stage made from the i-th entry is among the stages joined so far
HasStageOf(i) ==
    out # PyNone /\ \E n \in DOMAIN out.d :
        SubSeq(n, 1, Len(doc.stages[i].name)) = doc.stages[i].name

(* C11: an entry that holds exactly one of foreach and in is rejected with   *)
(* the definition error and yields no stage; an entry that holds both or     *)
(* neither is not rejected with it.                                          *)
C11_ForeachPairing ==
    \A i \in 1..Len(doc.stages) :
        Handled(i) =>
            LET d == doc.stages[i].definition.d
                one == (FOREACH_KWD \in DOMAIN d) # (IN_KWD \in DOMAIN d)
            IN /\ one => /\ PairingError(i) \/ IsErr(check_foreach_do(PyDict(d)))
                         /\ ~HasStageOf(i)
               /\ ~one => ~PairingError(i)

----------------------------------------------------------------------------
(* The type of what foreach resolves to *)

\* what the foreach expression of the i-th entry resolves to in the entry's
\* context, or the exception raised before there is such a value
ForeachValue(i) ==
    LET d == doc.stages[i].definition.d
        s == _set_context_from(clone(global_ctx), Get(d, SET_KWD, PyDict(EmptyDict)))
    IN IF IsErr(s.ret) THEN s.ret
       ELSE resolve(d[FOREACH_KWD], s.ctx, FALSE).ret

\* x is null, a boolean, a number or a string, bare or boxed
IsScalar(x) ==
    IF IsNode(x) THEN x.kind \in {"Value", "String"}
    ELSE x.t \in {"none", "bool", "int", "str"}

\* the i-th entry holds foreach and in, and foreach resolves to a scalar
ScalarForeach(i) ==
    /\ {FOREACH_KWD, IN_KWD} \subseteq DOMAIN doc.stages[i].definition.d
    /\ ~IsErr(ForeachValue(i))
    /\ IsScalar(ForeachValue(i))

(* C12: when the foreach expression of an entry resolves to null, a boolean, *)
(* a number or a string, resolve() ends at that entry with the type error of *)
(* _foreach; each_iter is not called for it, so no stage is generated and a  *)
(* string is not iterated character by character.                            *)
C12_ForeachTypeError ==
    \A i \in 1..Len(doc.stages) :
        (Handled(i) /\ ScalarForeach(i)) =>
            /\ pc = "error" /\ idx = i
            /\ result.exc = "Exception" /\ result.what = "got type of"
            /\ pending = NoPending
            /\ frames = <<>>
            /\ ~HasStageOf(i)

\* a foreach over the plain string ab ended with the type error
C12_Witness_PlainString ==
    /\ pc = "error" /\ idx = 1 /\ result.what = "got type of"
    /\ doc.stages[1].definition.d[FOREACH_KWD] = PyStr(<<"a", "b">>)
    /\ frames = <<>>

----------------------------------------------------------------------------
(* An error ends resolve() without a result *)

\* some call of _resolve_stage raised
SomeCallRaised == \E i \in 1..Len(frames) : IsErr(frames[i].ret)

(* C14: when the resolution of an entry or of a foreach iteration raises,    *)
(* resolve() ends with that exception and returns nothing; resolve() returns *)
(* a mapping only when every entry was resolved and no call raised.          *)
C14_FailFast ==
    /\ (pc = "error" \/ SomeCallRaised) =>
          /\ pc = "error"
          /\ IsErr(result)
    /\ pc = "done" =>
          /\ ~SomeCallRaised
          /\ \A i \in 1..Len(doc.stages) : Handled(i)
    /\ pc \notin {"done", "error"} => result = PyNone

\* an iteration of a foreach raised after its definition had been resolved,
\* and resolve() ended with the exception of that iteration
C14_Witness_IterationRaised ==
    /\ pc = "error"
    /\ pending # NoPending
    /\ frames # <<>>
    /\ frames[Len(frames)].stage_d # Absent
    /\ result = frames[Len(frames)].ret
    /\ IsErr(result)

----------------------------------------------------------------------------
(* Documents without an expression *)

\* no string of the document holds an expression, and every entry of stages
\* is a plain stage definition
TokenFree ==
    /\ \A i \in 1..Len(doc.stages) :
          /\ Reads(doc.stages[i].definition.d) = {}
          /\ DOMAIN doc.stages[i].definition.d \cap {FOREACH_KWD, IN_KWD, SET_KWD} = {}
    /\ doc.vars # Absent => Reads(doc.vars.d) = {}

\* the stage resolve() returned under the name of the i-th entry is the
\* entry's definition with an empty params list where it had none
ReturnedUnchanged(i) ==
    LET name == doc.stages[i].name
        d == doc.stages[i].definition.d
    IN /\ ~IsErr(result)
       /\ result.d[STAGES_KWD] # PyNone
       /\ name \in DOMAIN result.d[STAGES_KWD].d
       /\ result.d[STAGES_KWD].d[name] =
              PyDict(IF PARAMS_KWD \in DOMAIN d THEN d
                     ELSE Put(d, PARAMS_KWD, PyList(<<>>)))

(* C15: resolve() of a document that holds no expression returns every stage *)
(* definition as it was given, with an empty params list appended.           *)
C15_TokenFreeUnchanged ==
    (TokenFree /\ pc \in {"done", "error"}) =>
        /\ pc = "done"
        /\ \A i \in 1..Len(doc.stages) : ReturnedUnchanged(i)

----------------------------------------------------------------------------
(* The shape of what resolve() returns *)

\* the top-level key k of the document, held by v, is in the result unchanged
Kept(k, v) ==
    v # Absent => (k \in DOMAIN result.d /\ result.d[k] = v)

(* C16: what resolve() returns is the document it was given with stages      *)
(* replaced by the mapping of the generated names: use and vars are in it as *)
(* the document had them.                                                    *)
C16_OutputShape ==
    pc = "done" =>
        /\ Kept(USE_KWD, doc.use)
        /\ Kept(VARS_KWD, doc.vars)
        /\ STAGES_KWD \in DOMAIN result.d

----------------------------------------------------------------------------
(* The file of the global parameters and the params of a stage *)

\* the Contexts a call of _resolve_stage in the directory of dvc.yaml loads
\* for the definition it was given
LoadedFor(f) ==
    Contexts(global_ctx_source, files, yaml_wdir,
             Get(f.definition, PARAMS_KWD, PyList(<<>>)))

\* the call loads the file the global parameters came from
LoadsGlobalSource(f) ==
    /\ global_ctx_source # NoSource
    /\ WDIR_KWD \notin DOMAIN f.definition
    /\ \E i \in 1..Len(LoadedFor(f)) :
          /\ ~IsErr(LoadedFor(f)[i])
          /\ LoadedFor(f)[i].meta.source = global_ctx_source

\* the definition of the call names the file of the global parameters in params
ListsGlobalSource(f) ==
    /\ global_ctx_source # NoSource
    /\ WDIR_KWD \notin DOMAIN f.definition
    /\ PARAMS_KWD \in DOMAIN f.definition
    /\ \E e \in Elements(f.definition[PARAMS_KWD]) :
          e.t = "dict" /\ \E k \in DOMAIN e.d : PathJoin(yaml_wdir, k) = global_ctx_source

(* C17: no call of _resolve_stage loads the file the global parameters came  *)
(* from, neither as params.yaml of the working directory nor as a file named *)
(* in params; a stage that names that file in params does not end with the   *)
(* conflict error of merge_update.                                           *)
C17_NoDoubleLoad ==
    \A i \in 1..Len(frames) :
        /\ ~LoadsGlobalSource(frames[i])
        /\ ListsGlobalSource(frames[i]) =>
              ~(IsErr(frames[i].ret) /\ frames[i].ret.what = "cannot overwrite")

----------------------------------------------------------------------------
(* What a clone shares with the Context it was cloned from *)

(* C18: what is done to a clone of a Context leaves the Context as it was:   *)
(* the global Context is the same after every step of resolve(), and the     *)
(* Context of a foreach entry is the same after every each_iter, which works *)
(* on a clone of it.                                                         *)
C18_CloneIsolation ==
    [][/\ pc # "new" => global_ctx' = global_ctx
       /\ pc = "each" => pending'.context = pending.context]_vars

----------------------------------------------------------------------------
(* Entries resolved in any order *)

\* what resolve() makes of the i-th entry when it comes to it in document
\* order: _resolve_entry on a clone of the global Context the constructor left
InDocumentOrder(i) ==
    LET b == Bootstrap(doc, files)
        d == doc.stages[i].definition.d
        s == _set_context_from(clone(b.ctx), Get(d, SET_KWD, PyDict(EmptyDict)))
    IN IF IsErr(s.ret) THEN Outcome(<<>>, s.ctx, s.ret)
       ELSE _resolve_entry(b.source, files, s.ctx, doc.stages[i].name, d)

----------------------------------------------------------------------------
(* Container.select on a path that denotes no node *)

\* format_string or resolve was called on a string that is exactly one token
\* whose path leads to no node of the Context
SelectsNothing ==
    /\ IsFormatOp /\ ExactForm(op.arg)
    /\ WalkAt(op.pre, Segs(InnerOf(op.arg))) = NotThere

(* C13: selecting a path that denotes no node (a key that is missing, a list *)
(* index that is out of range or no integer, segments that go on after a     *)
(* Value) raises the not-found error of select and no other error.           *)
C13_MissingPathIsNotFound ==
    SelectsNothing =>
        /\ IsErr(op.ret)
        /\ op.ret.exc = "ValueError"
        /\ op.ret.what = "not found"

----------------------------------------------------------------------------
(* parser.py: index accessors *)

\* transform_brackets(s, loc, tokens): the accessor [word] becomes .word
transform_brackets(tokens) == <<".">> \o tokens

RECURSIVE DotForm(_)
\* a string with every index accessor [word] rewritten by transform_brackets
DotForm(s) ==
    IF s = <<>> THEN s
    ELSE IF Head(s) = "[" /\ \E j \in 2..Len(s) : s[j] = "]"
    THEN LET j == CHOOSE j \in 2..Len(s) :
                      s[j] = "]" /\ \A k \in 2..(j - 1) : s[k] # "]"
         IN transform_brackets(SubSeq(s, 2, j - 1))
                \o DotForm(SubSeq(s, j + 1, Len(s)))
    ELSE <<Head(s)>> \o DotForm(Tail(s))

\* the call of op made again, on the template t
Redo(t) ==
    IF op.name = "format_string" THEN format_string(op.pre, PyStr(t), op.unwrap)
    ELSE resolve(PyStr(t), op.pre, op.unwrap)

(* C20: a string that uses index accessors, ${a[i]}, resolves to the same    *)
(* value and tracks the same paths as the string that uses dots, ${a.i}.     *)
C20_BracketSameAsDot ==
    IsFormatOp =>
        /\ op.ret = Redo(DotForm(op.arg)).ret
        /\ ctx.tracked = Redo(DotForm(op.arg)).ctx.tracked

----------------------------------------------------------------------------
(* Tracking after the track() block *)

(* C21: once the track() block is left, by its end or by an exception of its *)
(* body, the tracking flag of the context is off and a select adds nothing   *)
(* to the tracked paths.                                                     *)
C21_TrackOffAfterBlock ==
    scope = "out" =>
        /\ ~ctx.track
        /\ \A k \in DOMAIN ctx.data :
              Context_select(ctx, k, FALSE).ctx.tracked = ctx.tracked

----------------------------------------------------------------------------
(* What a tracked select records *)

\* a string that is exactly one expression was resolved with tracking on
TrackedSelect ==
    /\ IsFormatOp /\ ExactForm(op.arg)
    /\ op.pre.track
    /\ ~IsErr(op.ret)

\* the segments of the selected path, and the node its first n segments lead to
SelectedSegs == Segs(InnerOf(op.arg))
Touched(n) == WalkAt(op.pre, SubSeq(SelectedSegs, 1, n))

\* the source file and dotted path of a node
OwnPath(node) == <<node.meta.source, MetaPath(node.meta)>>

(* C22: a tracked select of a path of several segments adds to the tracked   *)
(* paths the source and path of every Value and sequence it goes through,    *)
(* not only of the node it ends at.                                          *)
C22_EveryTouchedNodeTracked ==
    (TrackedSelect /\ Len(SelectedSegs) > 1) =>
        \A n \in 1..Len(SelectedSegs) :
            Touched(n).kind # "CtxDict" => OwnPath(Touched(n)) \in ctx.tracked

C24_IndexTracksSequence ==
    (TrackedSelect /\ Len(SelectedSegs) > 1
     /\ Touched(Len(SelectedSegs) - 1).kind = "CtxList") =>
        /\ OwnPath(Touched(Len(SelectedSegs) - 1)) \in ctx.tracked
        /\ OwnPath(Touched(Len(SelectedSegs))) \notin ctx.tracked

----------------------------------------------------------------------------
(* The Meta paths of the nodes of a Context *)

RECURSIVE WellPathed(_)
\* every Node below node has the dpaths of its parent followed by one segment
WellPathed(node) ==
    IF ~(IsNode(node) /\ node.kind \in {"CtxDict", "CtxList"}) THEN TRUE
    ELSE \A k \in DOMAIN node.data :
            LET child == node.data[k] IN
            (IsNode(child) /\ child.kind # "String") =>
                /\ Len(child.meta.dpaths) = Len(node.meta.dpaths) + 1
                /\ SubSeq(child.meta.dpaths, 1, Len(node.meta.dpaths))
                       = node.meta.dpaths
                /\ WellPathed(child)

(* C25: in the global Context, in the Context of every call of               *)
(* _resolve_stage and in the Context of a foreach being expanded, every Node *)
(* below the root has the dpaths of its parent followed by one segment.      *)
C25_MetaPaths ==
    /\ global_ctx # PyNone => WellPathed(global_ctx)
    /\ pending # NoPending => WellPathed(pending.context)
    /\ \A i \in 1..Len(frames) : WellPathed(frames[i].context)

----------------------------------------------------------------------------
(* What the containers of a Context hold *)

RECURSIVE NodeTree(_)
\* every child stored in node, at any depth, is a Node
NodeTree(node) ==
    IF ~(IsNode(node) /\ node.kind \in {"CtxDict", "CtxList"}) THEN TRUE
    ELSE \A k \in DOMAIN node.data :
            IsNode(node.data[k]) /\ NodeTree(node.data[k])

(* C26: every child stored in the global Context, after the constructor has  *)
(* merged the vars of the document into it, and in the Context of every call *)
(* of _resolve_stage, is a Node built by _convert.                           *)
C26_NodeTree ==
    /\ global_ctx # PyNone => NodeTree(global_ctx)
    /\ \A i \in 1..Len(frames) : NodeTree(frames[i].context)

----------------------------------------------------------------------------
(* The number of stages resolve() returns *)

\* the i-th entry is a definition without expressions and without set, params
\* or wdir, or a foreach over a literal list or mapping whose `in` reads
\* nothing but item and key
Countable(i) ==
    LET d == doc.stages[i].definition.d IN
    IF FOREACH_KWD \in DOMAIN d
    THEN /\ DOMAIN d = {FOREACH_KWD, IN_KWD}
         /\ d[FOREACH_KWD].t \in {"list", "dict"}
         /\ DOMAIN d[IN_KWD].d \cap {SET_KWD, PARAMS_KWD, WDIR_KWD} = {}
         /\ Reads(d[IN_KWD].d) \subseteq {kItem, kKey}
    ELSE /\ DOMAIN d \cap {IN_KWD, SET_KWD, PARAMS_KWD, WDIR_KWD} = {}
         /\ Reads(d) = {}

\* the number of stages the i-th entry stands for
StagesOf(i) ==
    LET d == doc.stages[i].definition.d IN
    IF FOREACH_KWD \notin DOMAIN d THEN 1
    ELSE IF d[FOREACH_KWD].t = "list" THEN Len(d[FOREACH_KWD].items)
    ELSE Cardinality(DOMAIN d[FOREACH_KWD].d)

RECURSIVE SumStages(_)
SumStages(n) == IF n = 0 THEN 0 ELSE SumStages(n - 1) + StagesOf(n)

(* C27: resolve() of a document returns as many stages as the document has   *)
(* plain entries plus foreach iterations; none is dropped or overwritten.    *)
C27_NoStageLost ==
    ((\A i \in 1..Len(doc.stages) : Countable(i)) /\ pc \in {"done", "error"}) =>
        /\ pc = "done"
        /\ Cardinality(IF result.d[STAGES_KWD] = PyNone THEN {}
                       ELSE DOMAIN result.d[STAGES_KWD].d)
               = SumStages(Len(doc.stages))

----------------------------------------------------------------------------
(* LazyThreadPoolExecutor.imap_unordered *)

\* the longest input and the largest pool
MaxInputs == 6
MaxWorkers == 2

\* tasks = create_taskset(self._max_workers * 5)
TasksPerWorker == 5

\* the inputs that islice(it, k) takes from the iterator
Taken(p, k) == (p.it + 1)..(IF p.it + k < p.n THEN p.it + k ELSE p.n)

\* create_taskset(k): submits fn for the next k inputs, fewer when the
\* iterator ends; the futures are added to tasks
create_taskset(p, k) ==
    [p EXCEPT !.it = IF p.it + k < p.n THEN p.it + k ELSE p.n,
              !.state = [i \in 1..p.n |-> IF i \in Taken(p, k) THEN "queued" ELSE @[i]],
              !.submits = [i \in 1..p.n |-> IF i \in Taken(p, k) THEN @[i] + 1 ELSE @[i]],
              !.tasks = @ \cup Taken(p, k)]

\* a first set of one task more
InitialSet_More(p) == p.max_workers * TasksPerWorker + 1

\* the size of the first set: self._max_workers * 5
InitialSet(p) == p.max_workers * TasksPerWorker

\* `while tasks:`
Loop(p) == [p EXCEPT !.pc = IF p.tasks = {} THEN "end" ELSE "wait"]

\* a refill that submits nothing
Refill_None(p) == 0

\* tasks.update(create_taskset(len(done)))
Refill(p) == Cardinality(p.done)

\* the first next() on the generator: lines 56-58
ImapStart ==
    /\ pool.pc = "start"
    /\ pool' = Loop(create_taskset(pool, InitialSet(pool)))
    /\ UNCHANGED <<unit, driver, runner>>

\* a thread of the pool takes a submitted task
WorkerTake ==
    /\ pool.pc \notin {"idle", "start"}
    /\ \E i \in 1..pool.n :
          /\ pool.state[i] = "queued"
          /\ Cardinality({j \in 1..pool.n : pool.state[j] = "running"})
                 < pool.max_workers
          /\ pool' = [pool EXCEPT !.state[i] = "running"]
    /\ UNCHANGED <<unit, driver, runner>>

\* fn returns in a thread of the pool: the future is done
WorkerDone ==
    /\ pool.pc \notin {"idle", "start"}
    /\ \E i \in 1..pool.n :
          /\ pool.state[i] = "running"
          /\ pool' = [pool EXCEPT !.state[i] = "finished"]
    /\ UNCHANGED <<unit, driver, runner>>

\* futures.wait(tasks, return_when=FIRST_COMPLETED) returns: lines 59-61
Wait ==
    /\ pool.pc = "wait"
    /\ \E d \in {{i \in pool.tasks : pool.state[i] = "finished"}} :
          /\ d # {}
          /\ pool' = [pool EXCEPT !.done = d, !.rest = d, !.tasks = @ \ d,
                                  !.pc = "yield"]
    /\ UNCHANGED <<unit, driver, runner>>

\* yield fut.result() for a future of done: lines 62-63
YieldResult ==
    /\ pool.pc = "yield"
    /\ \E f \in pool.rest :
          pool' = [pool EXCEPT !.rest = @ \ {f}, !.yields[f] = @ + 1,
                               !.state[f] = "yielded"]
    /\ UNCHANGED <<unit, driver, runner>>

\* the for loop is over: line 64 and the test of the while
RefillTasks ==
    /\ pool.pc = "yield"
    /\ pool.rest = {}
    /\ pool' = Loop(create_taskset(pool, Refill(pool)))
    /\ UNCHANGED <<unit, driver, runner>>

InitPool ==
    /\ ctx = Context(EmptyDict, PyNone)
    /\ op = NoOp
    /\ scope = "out"
    /\ origin = Loaded
    /\ Idle
    /\ runner = NoRunner
    /\ pool \in {[pc |-> "start", n |-> n, max_workers |-> w, it |-> 0,
                  state |-> [i \in 1..n |-> "new"],
                  tasks |-> {}, done |-> {}, rest |-> {},
                  submits |-> [i \in 1..n |-> 0], yields |-> [i \in 1..n |-> 0]] :
                    n \in 0..MaxInputs, w \in 1..MaxWorkers}

NextPool ==
    ImapStart \/ WorkerTake \/ WorkerDone \/ Wait \/ YieldResult \/ RefillTasks

SpecPool == InitPool /\ [][NextPool]_vars

\* the threads of the pool run what was submitted and the consumer keeps
\* iterating
SpecPoolLive == SpecPool /\ WF_vars(NextPool)

\* the tasks submitted whose result was not yet yielded
InFlight == {i \in 1..pool.n : pool.submits[i] > 0 /\ pool.yields[i] = 0}

(* C28: at every moment at most 5 * max_workers tasks are submitted without  *)
(* their result having been yielded, whatever the length of the input and    *)
(* the order in which the threads finish.                                    *)
C28_BoundedInFlight ==
    Cardinality(InFlight) <= TasksPerWorker * pool.max_workers

\* after a refill the bound is reached again, results having been yielded
C28_Witness_FullAfterRefill ==
    /\ pool.pc = "wait"
    /\ pool.it > TasksPerWorker * pool.max_workers
    /\ \E i \in 1..pool.n : pool.yields[i] = 1
    /\ Cardinality(InFlight) = TasksPerWorker * pool.max_workers

(* C29: no input is submitted and no result is yielded more than once, and   *)
(* the iteration ends, every input having been submitted once and its result *)
(* yielded once.                                                             *)
C29_Completes ==
    /\ [](\A i \in 1..pool.n : pool.submits[i] <= 1 /\ pool.yields[i] <= 1)
    /\ <>(/\ pool.pc = "end"
          /\ \A i \in 1..pool.n : pool.submits[i] = 1 /\ pool.yields[i] = 1)

\* the iteration over the longest input has ended after several refills
C29_Witness_Ended ==
    /\ pool.pc = "end"
    /\ pool.n = MaxInputs
    /\ pool.max_workers = 1
    /\ \A i \in 1..pool.n : pool.yields[i] = 1

----------------------------------------------------------------------------
(* stage/run.py: _cmd_run under stage/decorators.py: unlocked_repo *)

\* what signal.getsignal(SIGINT) can be: the two constants of the signal
\* module, Python's own handler, a handler of the application, and None for
\* a handler that was not installed from Python
SIG_DFL == "SIG_DFL"
SIG_IGN == "SIG_IGN"
Handlers == {SIG_DFL, SIG_IGN, "default_int_handler", "handler", "None"}

\* bool(h) of `if old_handler:`: SIG_DFL is the enum member of value 0,
\* SIG_IGN the one of value 1, a function is true, None is false
HandlerTruth(h) == h \notin {SIG_DFL, "None"}

\* p.returncode after communicate()
Returncodes == {0, 1}

\* the call stage._cmd_run() of _run, made with the repository lock held
Called_cmd_run(h, main) ==
    [pc |-> "call", main_thread |-> main, before |-> h, handler |-> h,
     old_handler |-> "None", p |-> "None", returncode |-> "None",
     exc |-> "none", locked |-> TRUE]

\* unlocked_repo.wrapper before the try: state.dump(), lock.unlock(), _reset()
Unlock ==
    /\ runner.pc = "call"
    /\ runner' = [runner EXCEPT !.locked = FALSE, !.pc = "popen"]
    /\ UNCHANGED <<unit, driver, pool>>

\* p = subprocess.Popen(cmd, **kwargs): the child runs, or Popen raises
\* (the working directory or the shell is missing)
Popen ==
    /\ runner.pc = "popen"
    /\ \/ runner' = [runner EXCEPT !.p = "Popen", !.pc = "ignore"]
       \/ runner' = [runner EXCEPT !.exc = "OSError", !.pc = "finally"]
    /\ UNCHANGED <<unit, driver, pool>>

\* a SIGINT that arrives on the main thread after Popen returned and before
\* the handler was replaced: Python's handler raises KeyboardInterrupt in the
\* try block, the system default ends the process
Interrupt ==
    /\ runner.pc = "ignore"
    /\ runner.main_thread
    /\ runner.handler \in {"default_int_handler", SIG_DFL}
    /\ runner' = IF runner.handler = SIG_DFL
                 THEN [runner EXCEPT !.pc = "killed"]
                 ELSE [runner EXCEPT !.exc = "KeyboardInterrupt", !.pc = "finally"]
    /\ UNCHANGED <<unit, driver, pool>>

\* if main_thread: old_handler = signal.signal(signal.SIGINT, signal.SIG_IGN)
IgnoreSigint ==
    /\ runner.pc = "ignore"
    /\ runner' = IF runner.main_thread
                 THEN [runner EXCEPT !.old_handler = runner.handler,
                                     !.handler = SIG_IGN, !.pc = "communicate"]
                 ELSE [runner EXCEPT !.pc = "communicate"]
    /\ UNCHANGED <<unit, driver, pool>>

\* p.communicate(): the child ends
Communicate ==
    /\ runner.pc = "communicate"
    /\ \E rc \in Returncodes :
          runner' = [runner EXCEPT !.returncode = rc, !.pc = "finally"]
    /\ UNCHANGED <<unit, driver, pool>>

\* finally: if old_handler: signal.signal(signal.SIGINT, old_handler)
RestoreHandler ==
    /\ runner.pc = "finally"
    /\ runner' = [runner EXCEPT
                    !.handler = IF HandlerTruth(runner.old_handler)
                                THEN runner.old_handler ELSE @,
                    !.pc = IF runner.exc = "none" THEN "retcode" ELSE "relock"]
    /\ UNCHANGED <<unit, driver, pool>>

\* retcode = None if not p else p.returncode; if retcode != 0: raise
CheckRetcode ==
    /\ runner.pc = "retcode"
    /\ runner' = [runner EXCEPT
                    !.exc = IF (IF runner.p = "None" THEN "None"
                                ELSE runner.returncode) # 0
                            THEN "StageCmdFailedError" ELSE @,
                    !.pc = "relock"]
    /\ UNCHANGED <<unit, driver, pool>>

\* unlocked_repo.wrapper, finally: lock.lock(), state.load(); then return ret
\* or the exception of f goes on
Relock ==
    /\ runner.pc = "relock"
    /\ runner' = [runner EXCEPT !.locked = TRUE,
                    !.pc = IF runner.exc = "none" THEN "returned" ELSE "raised"]
    /\ UNCHANGED <<unit, driver, pool>>

InitRun ==
    /\ ctx = Context(EmptyDict, PyNone)
    /\ op = NoOp
    /\ scope = "out"
    /\ origin = Loaded
    /\ Idle
    /\ pool = NoPool
    /\ runner \in {Called_cmd_run(h, main) : h \in Handlers, main \in BOOLEAN}

NextRun ==
    \/ Unlock
    \/ Popen
    \/ Interrupt
    \/ IgnoreSigint
    \/ Communicate
    \/ RestoreHandler
    \/ CheckRetcode
    \/ Relock

SpecRun == InitRun /\ [][NextRun]_vars

\* _cmd_run has returned or raised on the main thread
Left_cmd_run == runner.pc \in {"returned", "raised"} /\ runner.main_thread

(* C30: after _cmd_run returns or raises on the main thread the SIGINT       *)
(* handler is the one installed before the call, whatever it was, and the    *)
(* repository lock is held again.                                            *)
C30_RestoresHandlerAndLock ==
    Left_cmd_run => /\ runner.handler = runner.before
                    /\ runner.locked

====
